---- MODULE Spec2Model ----
(***************************************************************************)
(* Model of the PubMed search normalizer and the full-text resolution      *)
(* waterfall of pubmed_notebook_lm.py (class PubMedSearcher).              *)
(*                                                                         *)
(* Text is a sequence of one-character strings, so that slicing, splitting *)
(* and length are computed as Python computes them.  A Python value that   *)
(* may be of several types (None, int, str) is a record whose only field   *)
(* names its type.                                                         *)
(***************************************************************************)
EXTENDS Integers, Sequences, FiniteSets, TLC

VARIABLES
    rpc,        \* get_full_text_url: position in the waterfall
    hint,       \* get_full_text_url: the `article` argument
    env,        \* what each external service answers when it is asked
    result,     \* get_full_text_url: the local dict `result`
    calls,      \* requests issued so far by get_full_text_url, in order
    outcome,    \* how get_full_text_url ended: "running", "returned", "raised"
    spc,        \* search: position
    sin,        \* search: answers of esearch / efetch / elink for this call
    idx,        \* search: index of the record the for loop is at
    articles,   \* search: the local list `articles`
    scalls,     \* search: the external calls issued so far, in order
    sout,       \* search: [kind |-> "running" | "returned" | "raised", value]
    fn,         \* a function of the script applied to an input: [name, in, out, done]
    dl,         \* download_pdf: its answers, position, file written and return value
    web         \* the web server: the output directory and the /api/search requests

rvars == <<rpc, hint, env, result, calls, outcome>>
svars == <<spc, sin, idx, articles, scalls, sout>>
xvars == <<fn, dl, web>>
vars == <<rpc, hint, env, result, calls, outcome, spc, sin, idx, articles, scalls, sout,
          fn, dl, web>>

-----------------------------------------------------------------------------
(* Bounds of the model *)

MaxTitleLen == 1
MaxRecords == 2
MaxLinks == 1
MaxAuthors == 5
MaxOver == 2
MaxIds == 2
MaxLine == 5
MaxRows == 2
MaxCell == 1
MaxContent == 2
NumRequests == 2

\* the parts of the state a specification does not use stay at these values
FnIdle == [name |-> "none", in |-> <<>>, out |-> <<>>, done |-> TRUE]
DlIdle == [pc |-> "idle"]
WebIdle == [pc |-> "idle"]

-----------------------------------------------------------------------------
(* Text helpers *)

Chars == {"a", ":"}

\* the character c, n times
Rep(c, n) == [i \in 1..n |-> c]

SeqsUpTo(S, n) == UNION {[1..k -> S] : k \in 0..n}

\* s[:n]
Take(s, n) == SubSeq(s, 1, IF Len(s) < n THEN Len(s) ELSE n)

\* s.split(sep)[0]: the text before the first occurrence of sep
RECURSIVE BeforeFirst(_, _)
BeforeFirst(s, sep) ==
    IF s = <<>> \/ Head(s) = sep THEN <<>>
    ELSE <<Head(s)>> \o BeforeFirst(Tail(s), sep)

\* urllib.parse.quote on one character: letters are kept, others are escaped
QuoteChar(c) ==
    CASE c = " " -> <<"%", "2", "0">>
      [] c = ":" -> <<"%", "3", "A">>
      [] OTHER -> <<c>>

RECURSIVE Quote(_)
Quote(s) == IF s = <<>> THEN <<>> ELSE QuoteChar(Head(s)) \o Quote(Tail(s))

-----------------------------------------------------------------------------
(* get_full_text_url: values *)

None == [none |-> TRUE]
Str(s) == [str |-> s]

TitleCap == 100

LongTitle == Rep("a", TitleCap + 1)
ColonTitle == <<"a", " ", ":", "a">>
Titles == SeqsUpTo(Chars, MaxTitleLen) \cup {LongTitle, ColonTitle}

\* article['title']: the key is missing, holds a non-string, or holds a string
TitleVals == {[t |-> "missing", s |-> <<>>], [t |-> "nonstr", s |-> <<>>]}
             \cup {[t |-> "str", s |-> s] : s \in Titles}
AuthorsVals == {"missing", "empty", "nonempty"}

\* the `article` argument: None, a value that is no dict, or a dict
Hints ==
    {[kind |-> "none", truthy |-> FALSE, title |-> [t |-> "missing", s |-> <<>>],
      authors |-> "missing", other |-> FALSE]}
    \cup {[kind |-> "nondict", truthy |-> b, title |-> [t |-> "missing", s |-> <<>>],
           authors |-> "missing", other |-> FALSE] : b \in BOOLEAN}
    \cup {[kind |-> "dict",
           truthy |-> (t.t # "missing" \/ a # "missing" \/ o),
           title |-> t, authors |-> a, other |-> o]
          : t \in TitleVals, a \in AuthorsVals, o \in {FALSE}}
    \cup {[kind |-> "dict", truthy |-> TRUE, title |-> [t |-> "missing", s |-> <<>>],
           authors |-> "missing", other |-> TRUE]}

\* answers of the services
PmcAnswers == {"search_exc", "no_ids", "head_exc", "head_404", "head_200"}
PreprintAnswers == {"exc", "non200", "empty", "nopdf", "relpdf", "abspdf"}
ArxivAnswers == {"exc", "non200", "noentry", "nopdf", "pdf"}
RgAnswers == {"exc", "404", "200"}

Envs == [pmc : PmcAnswers, biorxiv : PreprintAnswers, medrxiv : PreprintAnswers,
         arxiv : ArxivAnswers, rg : RgAnswers]

Url(base, arg) == [base |-> base, arg |-> arg]
PmcId == <<"7">>
PdfPath == <<"/", "x">>
ArxivId == <<"1">>

EmptyResult == [url |-> None, source |-> None, access_type |-> None]

\* the outcome of one helper call: a value, or an exception leaving it
Ret(v) == [exc |-> FALSE, val |-> v]
Exc == [exc |-> TRUE, val |-> None]

-----------------------------------------------------------------------------
(* get_full_text_url: the helpers, each with the requests it issues *)

Call(svc, key) == [svc |-> svc, key |-> key]

\* what a helper did: its return value (or the exception leaving it) and its requests
Did(r, cs) == [exc |-> r.exc, val |-> r.val, calls |-> cs]

\* title.split(':')[0][:100]
SearchKey(s) == Take(BeforeFirst(s, ":"), TitleCap)

\* article.get('title', ''): the default only replaces a missing key
GetTitle(h) == IF h.title.t = "missing" THEN [t |-> "str", s |-> <<>>] ELSE h.title

\* a _try_pmc that returns the URL it built without looking at the probe
TryPmc_Unverified(a) ==
    CASE a = "search_exc" -> Did(Ret(None), <<Call("pmc_esearch", <<>>)>>)
      [] a = "no_ids"     -> Did(Ret(None), <<Call("pmc_esearch", <<>>)>>)
      [] OTHER ->
           Did(Ret(Url("https://www.ncbi.nlm.nih.gov/pmc/articles/PMC/pdf/", PmcId)),
               <<Call("pmc_esearch", <<>>), Call("pmc_head", PmcId)>>)

\* _try_pmc: index search, then an existence probe of the PDF URL
TryPmc(a) ==
    CASE a = "search_exc" -> Did(Ret(None), <<Call("pmc_esearch", <<>>)>>)
      [] a = "no_ids"     -> Did(Ret(None), <<Call("pmc_esearch", <<>>)>>)
      [] a = "head_exc"   -> Did(Ret(None), <<Call("pmc_esearch", <<>>), Call("pmc_head", PmcId)>>)
      [] a = "head_404"   -> Did(Ret(None), <<Call("pmc_esearch", <<>>), Call("pmc_head", PmcId)>>)
      [] a = "head_200"   ->
           Did(Ret(Url("https://www.ncbi.nlm.nih.gov/pmc/articles/PMC/pdf/", PmcId)),
               <<Call("pmc_esearch", <<>>), Call("pmc_head", PmcId)>>)

\* one iteration of the server loop of _try_preprints: the URL found, or None
PreprintHit(a) ==
    CASE a = "abspdf" -> Url("", <<"h", "t", "t", "p">> \o PdfPath)
      [] a = "relpdf" -> Url("https://biorxiv.org", PdfPath)
      [] OTHER -> None

\* a _try_preprints whose loop is left by an exception of the first server
TryPreprints_StopOnError(title, e) ==
    IF title.t # "str" THEN Did(Ret(None), <<>>)
    ELSE LET key == SearchKey(title.s)
             b == PreprintHit(e.biorxiv)
             m == PreprintHit(e.medrxiv)
         IN IF b # None \/ e.biorxiv = "exc" THEN Did(Ret(b), <<Call("biorxiv", key)>>)
            ELSE Did(Ret(m), <<Call("biorxiv", key), Call("medrxiv", key)>>)

\* _try_preprints: biorxiv, then medrxiv, the first PDF link found is returned
TryPreprints(title, e) ==
    IF title.t # "str" THEN Did(Ret(None), <<>>)
    ELSE LET key == SearchKey(title.s)
             b == PreprintHit(e.biorxiv)
             m == PreprintHit(e.medrxiv)
         IN IF b # None THEN Did(Ret(b), <<Call("biorxiv", key)>>)
            ELSE Did(Ret(m), <<Call("biorxiv", key), Call("medrxiv", key)>>)

\* _try_arxiv
TryArxiv(title, a) ==
    IF title.t # "str" THEN Did(Ret(None), <<>>)
    ELSE LET key == Quote(SearchKey(title.s))
         IN Did(Ret(IF a = "pdf" THEN Url("https://arxiv.org/pdf/.pdf", ArxivId) ELSE None),
                <<Call("arxiv", key)>>)

\* _try_researchgate: the authors argument is not read
TryResearchgate(title, authors, a) ==
    IF title.t # "str" THEN Did(Ret(None), <<>>)
    ELSE LET key == Quote(SearchKey(title.s))
         IN Did(Ret(IF a = "200" THEN Url("https://www.researchgate.net/search?q=", key)
                    ELSE None),
                <<Call("researchgate", key)>>)

\* `if article:` followed by article.get(...): a falsy hint skips the stage, a
\* truthy value that is no dict has no .get and raises AttributeError
StagePreprints(h, e) ==
    IF ~h.truthy THEN Did(Ret(None), <<>>)
    ELSE IF h.kind # "dict" THEN Did(Exc, <<>>)
    ELSE TryPreprints(GetTitle(h), e)

StageArxiv(h, e) ==
    IF ~h.truthy THEN Did(Ret(None), <<>>)
    ELSE IF h.kind # "dict" THEN Did(Exc, <<>>)
    ELSE TryArxiv(GetTitle(h), e.arxiv)

StageResearchgate(h, e) ==
    IF ~h.truthy THEN Did(Ret(None), <<>>)
    ELSE IF h.kind # "dict" THEN Did(Exc, <<>>)
    ELSE TryResearchgate(GetTitle(h), h.authors, e.rg)

Hit_NoAccessType(u, source, access) ==
    [url |-> u, source |-> Str(source), access_type |-> None]

\* the three assignments made on a hit
Hit(u, source, access) == [url |-> u, source |-> Str(source), access_type |-> Str(access)]

OnException_Reraise(res) == [outcome |-> "raised", result |-> res]

\* the `except Exception` clause of get_full_text_url: log, return result
OnException(res) == [outcome |-> "returned", result |-> res]

-----------------------------------------------------------------------------
(* get_full_text_url: the waterfall, one action per stage *)

\* a stage whose hit is recorded but not returned
Stage_NoReturn(here, d, source, access, next) ==
    /\ rpc = here
    /\ calls' = calls \o d.calls
    /\ IF d.exc
         THEN /\ result' = OnException(result).result
              /\ outcome' = OnException(result).outcome
              /\ rpc' = "done"
         ELSE /\ result' = IF d.val # None THEN Hit(d.val, source, access) ELSE result
              /\ outcome' = IF next = "done" THEN "returned" ELSE outcome
              /\ rpc' = next
    /\ UNCHANGED <<hint, env>>
    /\ UNCHANGED svars
    /\ UNCHANGED xvars

\* one stage: issue the helper's requests, then return on a hit, go to the
\* except clause on an exception, or fall through to the next stage
Stage(here, d, source, access, next) ==
    /\ rpc = here
    /\ calls' = calls \o d.calls
    /\ IF d.exc
         THEN /\ result' = OnException(result).result
              /\ outcome' = OnException(result).outcome
              /\ rpc' = "done"
         ELSE IF d.val # None
         THEN /\ result' = Hit(d.val, source, access)
              /\ outcome' = "returned"
              /\ rpc' = "done"
         ELSE IF next = "done"
         THEN /\ result' = result
              /\ outcome' = "returned"
              /\ rpc' = "done"
         ELSE /\ UNCHANGED <<result, outcome>>
              /\ rpc' = next
    /\ UNCHANGED <<hint, env>>
    /\ UNCHANGED svars
    /\ UNCHANGED xvars

\* a repository stage that records its hit and goes on to the preprint stage
ResolvePmc_NoShortCircuit ==
    Stage_NoReturn("pmc", TryPmc(env.pmc), "PubMed Central", "open-access", "preprints")

ResolvePmc ==
    Stage("pmc", TryPmc(env.pmc), "PubMed Central", "open-access", "preprints")

ResolvePreprints ==
    Stage("preprints", StagePreprints(hint, env), "bioRxiv/medRxiv", "open-access", "arxiv")

ResolveArxiv ==
    Stage("arxiv", StageArxiv(hint, env), "arXiv", "open-access", "researchgate")

ResolveResearchgate ==
    Stage("researchgate", StageResearchgate(hint, env), "ResearchGate", "possibly-paywalled",
          "done")

\* the state at the call of get_full_text_url(pmid, article)
ResolveInit ==
    /\ rpc = "pmc"
    /\ hint \in Hints
    /\ env \in Envs
    /\ result = EmptyResult
    /\ calls = <<>>
    /\ outcome = "running"
    /\ spc = "idle"
    /\ sin = [esearch |-> "empty", efetch |-> "ok", n |-> 0, records |-> <<>>, elink |-> <<>>]
    /\ idx = 0
    /\ articles = <<>>
    /\ scalls = <<>>
    /\ sout = [kind |-> "running", value |-> <<>>]
    /\ fn = FnIdle
    /\ dl = DlIdle
    /\ web = WebIdle

ResolveNext == ResolvePmc \/ ResolvePreprints \/ ResolveArxiv \/ ResolveResearchgate

SpecResolve == ResolveInit /\ [][ResolveNext]_vars

-----------------------------------------------------------------------------
(* get_full_text_url: properties *)

ResultKeys == {"url", "source", "access_type"}

\* the positions at which a stage of the waterfall is still to run
ResolveStages == {"pmc", "preprints", "arxiv", "researchgate"}

\* C1: get_full_text_url never raises: whatever the hint (absent, empty dict,
\* missing or non-string title or authors, no dict at all) and whatever fails
\* in the PMC, bioRxiv/medRxiv, arXiv and ResearchGate calls, it goes on until
\* it returns (until then a stage is always left to run), and what it returns
\* has the keys url, source and access_type.
C1_NeverRaises ==
    /\ outcome # "raised"
    /\ rpc # "done" => outcome = "running" /\ rpc \in ResolveStages
    /\ rpc = "done" => outcome = "returned" /\ DOMAIN result = ResultKeys

\* a value that is no dict reached article.get and the call still returned
C1_Witness ==
    /\ rpc = "done"
    /\ hint.kind = "nondict" /\ hint.truthy
    /\ env.pmc = "search_exc"
    /\ outcome = "returned"

\* what the services would yield for this hint, stage by stage
HintUsable(h) == h.kind = "dict" /\ h.truthy /\ GetTitle(h).t = "str"
PmcYields(e) == e.pmc = "head_200"
PreprintYields(h, e) ==
    HintUsable(h) /\ (e.biorxiv \in {"relpdf", "abspdf"} \/ e.medrxiv \in {"relpdf", "abspdf"})
ArxivYields(h, e) == HintUsable(h) /\ e.arxiv = "pdf"
ResearchgateYields(h, e) == HintUsable(h) /\ e.rg = "200"

EarliestSource(h, e) ==
    IF PmcYields(e) THEN Str("PubMed Central")
    ELSE IF PreprintYields(h, e) THEN Str("bioRxiv/medRxiv")
    ELSE IF ArxivYields(h, e) THEN Str("arXiv")
    ELSE IF ResearchgateYields(h, e) THEN Str("ResearchGate")
    ELSE None

\* C2: the source returned is the earliest, in the order PubMed Central,
\* bioRxiv/medRxiv, arXiv, ResearchGate, of the sources that yield a hit; with
\* a repository hit and a preprint hit both available it is PubMed Central.
C2_ResolutionOrder ==
    rpc = "done" =>
        /\ result.source = EarliestSource(hint, env)
        /\ PmcYields(env) /\ PreprintYields(hint, env) => result.source = Str("PubMed Central")

C2_Witness ==
    /\ rpc = "done"
    /\ PmcYields(env) /\ PreprintYields(hint, env) /\ ArxivYields(hint, env)
    /\ result.source = Str("PubMed Central")

\* C3: in every returned result, url present implies source and access_type
\* present, and url absent implies source and access_type absent.
C3_ResultAllOrNothing ==
    rpc = "done" =>
        /\ result.url # None => result.source # None /\ result.access_type # None
        /\ result.url = None => result.source = None /\ result.access_type = None

C3_Witness ==
    /\ rpc = "done"
    /\ result.url # None
    /\ result.access_type = Str("possibly-paywalled")

\* the hint carries no title: it is absent, or a dict without a non-empty title
NoTitle(h) ==
    \/ h.kind = "none"
    \/ h.kind = "dict" /\ (h.title.t = "missing" \/ (h.title.t = "str" /\ h.title.s = <<>>))

\* C4: when PMC yields nothing and the hint carries no title, the result is
\* the all-absent one, whatever the other services would answer.
C4_NoTitleAllAbsent ==
    rpc = "done" /\ ~PmcYields(env) /\ NoTitle(hint) => result = EmptyResult

\* C5: source 'ResearchGate' is returned only for a hint with a non-empty
\* title and non-empty authors, and only when the probe answered 200.
C5_ResearchgateNeedsTitleAndAuthors ==
    rpc = "done" /\ result.source = Str("ResearchGate") =>
        /\ hint.kind = "dict"
        /\ hint.title.t = "str" /\ hint.title.s # <<>>
        /\ hint.authors = "nonempty"
        /\ env.rg = "200"

\* the answers of PMC in which the index gave an identifier and the probe of
\* the PDF URL failed: it raised (a timeout included) or gave another status
ProbeFailed == {"head_exc", "head_404"}

\* C22: when the PMC index returns an identifier and the existence probe
\* fails, the repository stage issues both requests, yields nothing and the
\* waterfall goes on to the preprint stage: the result stays all-absent and
\* the call neither returns nor raises at this point.
C22_UnverifiedPmcFallsThrough ==
    [][rpc = "pmc" /\ env.pmc \in ProbeFailed =>
          /\ TryPmc(env.pmc).val = None
          /\ calls' = <<Call("pmc_esearch", <<>>), Call("pmc_head", PmcId)>>
          /\ rpc' = "preprints"
          /\ result' = EmptyResult
          /\ outcome' = "running"]_vars

\* the probe raised, the waterfall went on and arXiv gave the result
C22_Witness ==
    /\ rpc = "done"
    /\ env.pmc = "head_exc"
    /\ Len(calls) > 2 /\ calls[2] = Call("pmc_head", PmcId)
    /\ result.source = Str("arXiv")

\* the requests from position n on
CallsFrom(cs, n) == SubSeq(cs, n, Len(cs))

HasPdf(a) == a \in {"relpdf", "abspdf"}

\* C23: the preprint stage, run for a dict hint with a text title, queries
\* bioRxiv first and medRxiv second with the same key, the title before its
\* first colon cut to 100 characters; a bioRxiv hit with a PDF link ends the
\* stage with that link and without the medRxiv query; any other bioRxiv
\* answer (exception, non-200, empty collection, entry without link) is
\* followed by the medRxiv query, whose link, if any, is the result.
C23_PreprintOrder ==
    [][rpc = "preprints" /\ HintUsable(hint) =>
          LET key == SearchKey(GetTitle(hint).s)
              new == CallsFrom(calls', Len(calls) + 1)
          IN /\ Len(key) <= TitleCap
             /\ \A i \in 1..Len(key) : key[i] # ":"
             /\ IF HasPdf(env.biorxiv)
                  THEN /\ new = <<Call("biorxiv", key)>>
                       /\ result'.url = PreprintHit(env.biorxiv)
                       /\ rpc' = "done"
                  ELSE /\ new = <<Call("biorxiv", key), Call("medrxiv", key)>>
                       /\ HasPdf(env.medrxiv) =>
                             result'.url = PreprintHit(env.medrxiv) /\ rpc' = "done"
                       /\ ~HasPdf(env.medrxiv) => result' = EmptyResult /\ rpc' = "arxiv"]_vars

\* bioRxiv raised, medRxiv was asked with the capped key and gave the link
C23_Witness ==
    /\ rpc = "done"
    /\ hint.kind = "dict" /\ hint.title = [t |-> "str", s |-> LongTitle]
    /\ env.biorxiv = "exc" /\ env.medrxiv = "relpdf"
    /\ Len(calls) = 4
    /\ calls[3] = Call("biorxiv", Rep("a", TitleCap))
    /\ calls[4] = Call("medrxiv", Rep("a", TitleCap))
    /\ result.source = Str("bioRxiv/medRxiv")

\* the services of each stage, in the order of the waterfall
StageOf(svc) ==
    CASE svc \in {"pmc_esearch", "pmc_head"} -> 1
      [] svc \in {"biorxiv", "medrxiv"} -> 2
      [] svc = "arxiv" -> 3
      [] svc = "researchgate" -> 4

SourceStage(source) ==
    CASE source = Str("PubMed Central") -> 1
      [] source = Str("bioRxiv/medRxiv") -> 2
      [] source = Str("arXiv") -> 3
      [] source = Str("ResearchGate") -> 4

\* C24: no service is asked twice in one call, the requests follow the order
\* of the stages, and once a stage has yielded a URL no request of a later
\* stage has been or will be issued: the call is over with the requests of
\* the stages up to the yielding one only.
C24_FirstSuccessShortCircuits ==
    /\ \A i, j \in 1..Len(calls) :
          /\ calls[i].svc = calls[j].svc => i = j
          /\ i < j => StageOf(calls[i].svc) <= StageOf(calls[j].svc)
    /\ result.url # None =>
          /\ rpc = "done"
          /\ \A i \in 1..Len(calls) : StageOf(calls[i].svc) <= SourceStage(result.source)

\* a verified PMC hit for a hint that the later stages could have used
C24_Witness ==
    /\ rpc = "done"
    /\ env.pmc = "head_200"
    /\ HintUsable(hint) /\ HasPdf(env.biorxiv) /\ env.arxiv = "pdf" /\ env.rg = "200"
    /\ calls = <<Call("pmc_esearch", <<>>), Call("pmc_head", PmcId)>>
    /\ result.source = Str("PubMed Central")

-----------------------------------------------------------------------------
(* search: text and values *)

NA == <<"N", "/", "A">>

\* an optional part of a record: present with a value, or absent
Some(v) == [has |-> TRUE, v |-> v]
Absent == [has |-> FALSE, v |-> <<>>]

\* a Python int, as opposed to text or None
PyInt(n) == [int |-> n]

Digits == {"0", "1", "2", "3", "4", "5", "6", "7", "8", "9"}

\* sep.join(parts)
RECURSIVE Join(_, _)
Join(parts, sep) ==
    IF parts = <<>> THEN <<>>
    ELSE IF Len(parts) = 1 THEN parts[1]
    ELSE parts[1] \o sep \o Join(Tail(parts), sep)

\* s.strip() for the blank
RECURSIVE LStrip(_)
LStrip(s) == IF s # <<>> /\ Head(s) = " " THEN LStrip(Tail(s)) ELSE s

RECURSIVE RStrip(_)
RStrip(s) ==
    IF s # <<>> /\ s[Len(s)] = " " THEN RStrip(SubSeq(s, 1, Len(s) - 1)) ELSE s

Strip(s) == RStrip(LStrip(s))

\* re.search(r'\d{4}', s): the first four consecutive digits, if any
RECURSIVE FirstFourDigits(_)
FirstFourDigits(s) ==
    IF Len(s) < 4 THEN Absent
    ELSE IF \A i \in 1..4 : s[i] \in Digits THEN Some(SubSeq(s, 1, 4))
    ELSE FirstFourDigits(Tail(s))

AbstractCap == 500
AuthorCap == 3

DoiPrefix == <<"h", "t", "t", "p", "s", ":", "/", "/", "d", "o", "i", ".", "o", "r", "g", "/">>
PmcPrefix == <<"h", "t", "t", "p", "s", ":", "/", "/", "w", "w", "w", ".", "n", "c", "b", "i", ".", "n", "l", "m", ".", "n", "i", "h", ".", "g", "o", "v", "/", "p", "m", "c", "/", "a", "r", "t", "i", "c", "l", "e", "s", "/">>
PdfSuffix == <<"/", "p", "d", "f", "/">>
PubmedPrefix == <<"h", "t", "t", "p", "s", ":", "/", "/", "p", "u", "b", "m", "e", "d", ".", "n", "c", "b", "i", ".", "n", "l", "m", ".", "n", "i", "h", ".", "g", "o", "v", "/">>
Ellipsis == <<".", ".", ".">>

-----------------------------------------------------------------------------
(* search: extraction of one record (the body of the for loop) *)

\* abstract: AbstractText joined with blanks when it is a list
ExtractAbstract(ab) ==
    CASE ab.kind = "absent" -> <<>>
      [] ab.kind = "notext" -> <<>>
      [] ab.kind = "list"   -> Join(ab.parts, <<" ">>)
      [] ab.kind = "single" -> ab.parts[1]

\* f"{last_name} {initials}".strip()
AuthorDisplay(au) ==
    Strip((IF au.LastName.has THEN au.LastName.v ELSE <<>>) \o <<" ">>
          \o (IF au.Initials.has THEN au.Initials.v ELSE <<>>))

\* the authors with a last name, in the order of AuthorList
RECURSIVE ExtractAuthors(_)
ExtractAuthors(list) ==
    IF list = <<>> THEN <<>>
    ELSE (IF list[1].LastName.has /\ list[1].LastName.v # <<>>
            THEN <<AuthorDisplay(list[1])>> ELSE <<>>)
         \o ExtractAuthors(Tail(list))

\* year: ArticleDate[0], else PubDate.Year, else the first \d{4} of MedlineDate
ExtractYear(art) ==
    IF art.ArticleDate.has /\ art.ArticleDate.v # <<>>
      THEN (IF art.ArticleDate.v[1].has THEN art.ArticleDate.v[1].v ELSE NA)
    ELSE IF art.PubDate.has
      THEN IF art.PubDate.v.Year.has THEN art.PubDate.v.Year.v
           ELSE IF art.PubDate.v.MedlineDate.has
             THEN LET m == FirstFourDigits(art.PubDate.v.MedlineDate.v)
                  IN IF m.has THEN m.v ELSE NA
           ELSE NA
    ELSE NA

\* journal: Title, else ISOAbbreviation
ExtractJournal(j) ==
    IF ~j.has THEN NA
    ELSE IF j.v.Title.has THEN j.v.Title.v
    ELSE IF j.v.ISOAbbreviation.has THEN j.v.ISOAbbreviation.v
    ELSE NA

\* a loop over ELocationID that sets doi and leaves doi_link as it was
RECURSIVE ScanELocations_StaleLink(_)
ScanELocations_StaleLink(elocs) ==
    IF elocs = <<>> THEN [doi |-> NA, doi_link |-> NA]
    ELSE IF elocs[1].type = "doi" THEN [doi |-> elocs[1].v, doi_link |-> NA]
    ELSE ScanELocations_StaleLink(Tail(elocs))

\* the loop over ELocationID: the first entry whose EIdType is "doi" sets doi
\* and doi_link, and the loop breaks on it
RECURSIVE ScanELocations(_)
ScanELocations(elocs) ==
    IF elocs = <<>> THEN [doi |-> NA, doi_link |-> NA]
    ELSE IF elocs[1].type = "doi" THEN [doi |-> elocs[1].v, doi_link |-> DoiPrefix \o elocs[1].v]
    ELSE ScanELocations(Tail(elocs))

\* a loop over ArticleIdList in which every doi entry overwrites doi
RECURSIVE ScanArticleIds_Override(_, _)
ScanArticleIds_Override(ids, acc) ==
    IF ids = <<>> THEN acc
    ELSE IF ids[1].type = "doi"
      THEN ScanArticleIds_Override(Tail(ids), [acc EXCEPT !.doi = ids[1].v,
                                                        !.doi_link = DoiPrefix \o ids[1].v])
    ELSE IF ids[1].type = "pmc"
      THEN ScanArticleIds_Override(Tail(ids), [acc EXCEPT !.pmc_id = ids[1].v])
    ELSE ScanArticleIds_Override(Tail(ids), acc)

\* the loop over ArticleIdList: a doi entry is taken while doi is still "N/A",
\* every pmc entry overwrites pmc_id
RECURSIVE ScanArticleIds(_, _)
ScanArticleIds(ids, acc) ==
    IF ids = <<>> THEN acc
    ELSE IF ids[1].type = "doi" /\ acc.doi = NA
      THEN ScanArticleIds(Tail(ids), [acc EXCEPT !.doi = ids[1].v,
                                                !.doi_link = DoiPrefix \o ids[1].v])
    ELSE IF ids[1].type = "pmc"
      THEN ScanArticleIds(Tail(ids), [acc EXCEPT !.pmc_id = ids[1].v])
    ELSE ScanArticleIds(Tail(ids), acc)

\* get_pmc_pdf_link
GetPmcPdfLink(pmid, pmc_id) ==
    IF pmc_id = <<>> \/ pmc_id = NA THEN NA ELSE PmcPrefix \o pmc_id \o PdfSuffix

\* abstract[:500] + "..." if len(abstract) > 500 else abstract
\* a truncation that also cuts an abstract of exactly 500 characters
TruncateAbstract_AtCap(ab) ==
    IF Len(ab) >= AbstractCap THEN Take(ab, AbstractCap) \o Ellipsis ELSE ab

TruncateAbstract(ab) == IF Len(ab) > AbstractCap THEN Take(ab, AbstractCap) \o Ellipsis ELSE ab

\* a dict that leaves out the PDF link of a record without PMC id
MakeArticle_NoPdfLinkKey(f, citation_count) ==
    LET full == [pmid |-> f.pmid, pmc_id |-> f.pmc_id, title |-> f.title,
                 abstract |-> TruncateAbstract(f.abstract),
                 authors |-> Join(Take(f.authors, AuthorCap), <<",", " ">>),
                 year |-> f.year, journal |-> f.journal, doi |-> f.doi,
                 doi_link |-> f.doi_link, pdf_link |-> GetPmcPdfLink(f.pmid, f.pmc_id),
                 url |-> PubmedPrefix \o f.pmid \o <<"/">>,
                 citation_count |-> IF citation_count # None THEN citation_count ELSE Str(NA)]
    IN IF f.pmc_id = NA THEN [k \in DOMAIN full \ {"pdf_link"} |-> full[k]] ELSE full

\* a dict that joins every author instead of the first three
MakeArticle_AllAuthors(f, citation_count) ==
    [pmid |-> f.pmid, pmc_id |-> f.pmc_id, title |-> f.title,
     abstract |-> TruncateAbstract(f.abstract),
     authors |-> Join(f.authors, <<",", " ">>),
     year |-> f.year, journal |-> f.journal, doi |-> f.doi,
     doi_link |-> f.doi_link, pdf_link |-> GetPmcPdfLink(f.pmid, f.pmc_id),
     url |-> PubmedPrefix \o f.pmid \o <<"/">>,
     citation_count |-> IF citation_count # None THEN citation_count ELSE Str(NA)]

\* the dict appended to articles
MakeArticle(f, citation_count) ==
    [pmid |-> f.pmid,
     pmc_id |-> IF f.pmc_id # NA THEN f.pmc_id ELSE NA,
     title |-> f.title,
     abstract |-> TruncateAbstract(f.abstract),
     authors |-> Join(Take(f.authors, AuthorCap), <<",", " ">>),
     year |-> f.year,
     journal |-> f.journal,
     doi |-> f.doi,
     doi_link |-> f.doi_link,
     pdf_link |-> GetPmcPdfLink(f.pmid, f.pmc_id),
     url |-> PubmedPrefix \o f.pmid \o <<"/">>,
     citation_count |-> IF citation_count # None THEN citation_count ELSE Str(NA)]

\* the fields read from one record, up to the call of get_citation_count; a
\* record without MedlineCitation, Article or PMID raises KeyError
ExtractFields(r) ==
    IF r.shape # "ok" THEN Exc
    ELSE LET art == r.article
             eloc == IF art.ELocationID.has THEN ScanELocations(art.ELocationID.v)
                     ELSE [doi |-> NA, doi_link |-> NA]
             ids == IF r.PubmedData.has /\ r.PubmedData.v.has THEN r.PubmedData.v.v ELSE <<>>
             scan == ScanArticleIds(ids, [doi |-> eloc.doi, doi_link |-> eloc.doi_link,
                                          pmc_id |-> NA])
         IN Ret([pmid |-> r.pmid,
                 title |-> IF art.ArticleTitle.has THEN art.ArticleTitle.v ELSE NA,
                 abstract |-> ExtractAbstract(art.Abstract),
                 authors |-> IF art.AuthorList.has THEN ExtractAuthors(art.AuthorList.v) ELSE <<>>,
                 year |-> ExtractYear(art),
                 journal |-> ExtractJournal(art.Journal),
                 doi |-> scan.doi,
                 doi_link |-> scan.doi_link,
                 pmc_id |-> scan.pmc_id])

-----------------------------------------------------------------------------
(* search: the records efetch may return and the answers of elink *)

Author(last, initials) == [LastName |-> last, Initials |-> initials]
Id(type, v) == [type |-> type, v |-> v]

NoPubmedData == Absent

\* a record in which every optional part is missing
BareArticle ==
    [ArticleTitle |-> Absent,
     Abstract |-> [kind |-> "absent", parts |-> <<>>],
     AuthorList |-> Absent,
     ArticleDate |-> Absent,
     PubDate |-> Absent,
     Journal |-> Absent,
     ELocationID |-> Absent]

\* a record with every part, a DOI at both levels and a PMC id
FullArticle ==
    [ArticleTitle |-> Some(<<"T">>),
     Abstract |-> [kind |-> "list", parts |-> <<<<"a">>, <<"b">>>>],
     AuthorList |-> Some(<<Author(Some(<<"X">>), Some(<<"A">>)),
                           Author(Some(<<"Y">>), Absent)>>),
     ArticleDate |-> Some(<<Some(<<"2", "0", "2", "1">>)>>),
     PubDate |-> Some([Year |-> Some(<<"2", "0", "2", "0">>), MedlineDate |-> Absent]),
     Journal |-> Some([Title |-> Some(<<"J">>), ISOAbbreviation |-> Some(<<"j">>)]),
     ELocationID |-> Some(<<Id("pii", <<"S">>), Id("doi", <<"D", "1">>)>>)]

\* a record with a long abstract, four authors of whom one has no last name,
\* a MedlineDate only, an abbreviation only, and DOIs at the record level only
RichArticle ==
    [ArticleTitle |-> Some(<<"T", ":", "t">>),
     Abstract |-> [kind |-> "single", parts |-> <<Rep("a", AbstractCap + 1)>>],
     AuthorList |-> Some(<<Author(Some(<<"X">>), Some(<<"A">>)),
                           Author(Absent, Some(<<"B">>)),
                           Author(Some(<<"Y">>), Some(<<"C">>)),
                           Author(Some(<<"Z">>), Some(<<"D">>)),
                           Author(Some(<<"W">>), Some(<<"E">>))>>),
     ArticleDate |-> Some(<<>>),
     PubDate |-> Some([Year |-> Absent, MedlineDate |-> Some(<<"2", "0", "2", "3", " ", "J", "a", "n", "-", "F", "e", "b">>)]),
     Journal |-> Some([Title |-> Absent, ISOAbbreviation |-> Some(<<"j">>)]),
     ELocationID |-> Some(<<Id("pii", <<"S">>)>>)]

FullIds == Some(Some(<<Id("pubmed", <<"1">>), Id("doi", <<"D", "2">>), Id("pmc", <<"P", "M", "C", "7">>)>>))
RichIds == Some(Some(<<Id("doi", <<"D", "2">>), Id("doi", <<"D", "3">>)>>))

\* the shapes of record of one batch; the PMID is set from the position, so
\* that the records of a batch have distinct PMIDs
RecordSamples ==
    {[shape |-> "ok", pmid |-> <<>>, article |-> BareArticle, PubmedData |-> NoPubmedData],
     [shape |-> "ok", pmid |-> <<>>, article |-> BareArticle, PubmedData |-> Some(Absent)],
     [shape |-> "ok", pmid |-> <<>>, article |-> FullArticle, PubmedData |-> FullIds],
     [shape |-> "ok", pmid |-> <<>>, article |-> RichArticle, PubmedData |-> RichIds],
     [shape |-> "noMedlineCitation", pmid |-> <<>>, article |-> BareArticle,
      PubmedData |-> NoPubmedData],
     [shape |-> "noPMID", pmid |-> <<>>, article |-> FullArticle, PubmedData |-> FullIds]}

PmidDigits == <<"1", "2", "3", "4", "5", "6", "7", "8", "9">>
PmidAt(i) == <<"3", PmidDigits[i]>>

\* what Entrez.elink / Entrez.read give for one PMID
ElinkAnswers ==
    {[kind |-> "exc", n |-> 0], [kind |-> "empty", n |-> 0], [kind |-> "nolinkset", n |-> 0]}
    \cup {[kind |-> "links", n |-> n] : n \in 0..MaxLinks}

\* the answers of esearch and efetch to one call of search: n is the number
\* of records of the batch; the records and the answers of elink are added to
\* records and elink as the loop reads them
SearchInputs ==
    {[esearch |-> e, efetch |-> "ok", n |-> 0, records |-> <<>>, elink |-> <<>>]
     : e \in {"exc", "empty"}}
    \cup {[esearch |-> "ids", efetch |-> "exc", n |-> 0, records |-> <<>>, elink |-> <<>>]}
    \cup {[esearch |-> "ids", efetch |-> "ok", n |-> n, records |-> <<>>, elink |-> <<>>]
          : n \in 0..MaxRecords}

\* the answer of elink for a record: none is asked for a record that fails to parse
ElinkAnswersFor(r) == IF r.shape = "ok" THEN ElinkAnswers ELSE {[kind |-> "uncalled", n |-> 0]}

-----------------------------------------------------------------------------
(* search: get_citation_count and the clauses that handle exceptions *)

\* get_citation_count without its except clause
GetCitationCount_Raises(a) ==
    CASE a.kind = "exc"       -> Exc
      [] a.kind = "empty"     -> Ret(PyInt(0))
      [] a.kind = "nolinkset" -> Ret(PyInt(0))
      [] a.kind = "links"     -> Ret(PyInt(a.n))

\* get_citation_count: None when elink or the reading of its answer raises,
\* 0 when there is no link set, else the number of citing PMIDs
GetCitationCount(a) ==
    CASE a.kind = "exc"       -> Ret(None)
      [] a.kind = "empty"     -> Ret(PyInt(0))
      [] a.kind = "nolinkset" -> Ret(PyInt(0))
      [] a.kind = "links"     -> Ret(PyInt(a.n))

\* a citation lookup that asks elink without waiting
CitationCalls_NoDelay == <<"elink">>

\* the requests of get_citation_count: the delay, then elink
CitationCalls == <<"sleep", "elink">>

\* a clause that starts the list again
OnRecordError_Reset(arts) == [articles |-> <<>>, propagate |-> FALSE]

\* `except Exception` of the for loop: log a warning, continue with the next record
OnRecordError(arts) == [articles |-> arts, propagate |-> FALSE]

\* a clause that logs and returns what it has
OnSearchError_Swallow(arts) == [kind |-> "returned", value |-> arts]

\* `except Exception` of search: log an error, raise
OnSearchError(arts) == [kind |-> "raised", value |-> <<>>]

Returned(arts) == [kind |-> "returned", value |-> arts]

-----------------------------------------------------------------------------
(* search: the actions *)

\* esearch without the early return on an empty IdList
SearchEsearch_NoEarlyReturn ==
    /\ spc = "esearch"
    /\ scalls' = Append(scalls, "esearch")
    /\ IF sin.esearch = "exc"
         THEN /\ sout' = [kind |-> "raised", value |-> <<>>]
              /\ spc' = "done"
         ELSE /\ sout' = sout
              /\ spc' = "efetch"
    /\ UNCHANGED <<sin, idx, articles>>
    /\ UNCHANGED rvars
    /\ UNCHANGED xvars

\* Entrez.esearch and the reading of IdList
SearchEsearch ==
    /\ spc = "esearch"
    /\ scalls' = Append(scalls, "esearch")
    /\ IF sin.esearch = "exc"
         THEN /\ sout' = OnSearchError(articles)
              /\ spc' = "done"
         ELSE IF sin.esearch = "empty"
         THEN /\ sout' = Returned(<<>>)
              /\ spc' = "done"
         ELSE /\ sout' = sout
              /\ spc' = "efetch"
    /\ UNCHANGED <<sin, idx, articles>>
    /\ UNCHANGED rvars
    /\ UNCHANGED xvars

\* Entrez.efetch and the reading of the records
SearchEfetch ==
    /\ spc = "efetch"
    /\ scalls' = Append(scalls, "efetch")
    /\ IF sin.efetch = "exc"
         THEN /\ sout' = OnSearchError(articles)
              /\ spc' = "done"
              /\ idx' = idx
         ELSE /\ sout' = sout
              /\ spc' = "records"
              /\ idx' = 1
    /\ UNCHANGED <<sin, articles>>
    /\ UNCHANGED rvars
    /\ UNCHANGED xvars

\* the outcome of one iteration on record rec with elink answering a
Iteration(rec, a) ==
    LET f == ExtractFields(rec)
        c == GetCitationCount(a)
        h == OnRecordError(articles)
    IN IF f.exc
         THEN /\ scalls' = scalls
              /\ articles' = h.articles
              /\ sout' = IF h.propagate THEN OnSearchError(h.articles) ELSE sout
              /\ spc' = IF h.propagate THEN "done" ELSE spc
         ELSE /\ scalls' = scalls \o CitationCalls
              /\ IF c.exc
                   THEN /\ articles' = h.articles
                        /\ sout' = IF h.propagate THEN OnSearchError(h.articles) ELSE sout
                        /\ spc' = IF h.propagate THEN "done" ELSE spc
                   ELSE /\ articles' = Append(articles, MakeArticle(f.val, c.val))
                        /\ sout' = sout
                        /\ spc' = spc

\* one iteration of the for loop over records["PubmedArticle"]
SearchRecord ==
    /\ spc = "records"
    /\ idx <= sin.n
    /\ \E r \in RecordSamples :
          \E a \in ElinkAnswersFor(r) :
             LET rec == [r EXCEPT !.pmid = PmidAt(idx)]
             IN /\ sin' = [sin EXCEPT !.records = Append(@, rec), !.elink = Append(@, a)]
                /\ Iteration(rec, a)
    /\ idx' = idx + 1
    /\ UNCHANGED rvars
    /\ UNCHANGED xvars

\* `return articles` after the loop
SearchReturn ==
    /\ spc = "records"
    /\ idx > sin.n
    /\ sout' = Returned(articles)
    /\ spc' = "done"
    /\ UNCHANGED <<sin, idx, articles, scalls>>
    /\ UNCHANGED rvars
    /\ UNCHANGED xvars

\* the state at the call of search(query, max_results, date_from, date_to)
SearchInit ==
    /\ spc = "esearch"
    /\ sin \in SearchInputs
    /\ idx = 0
    /\ articles = <<>>
    /\ scalls = <<>>
    /\ sout = [kind |-> "running", value |-> <<>>]
    /\ rpc = "done"
    /\ hint = [kind |-> "none", truthy |-> FALSE, title |-> [t |-> "missing", s |-> <<>>],
               authors |-> "missing", other |-> FALSE]
    /\ env = [pmc |-> "no_ids", biorxiv |-> "exc", medrxiv |-> "exc", arxiv |-> "exc",
              rg |-> "exc"]
    /\ result = EmptyResult
    /\ calls = <<>>
    /\ outcome = "returned"
    /\ fn = FnIdle
    /\ dl = DlIdle
    /\ web = WebIdle

SearchNext == SearchEsearch \/ SearchEfetch \/ SearchRecord \/ SearchReturn

SpecSearch == SearchInit /\ [][SearchNext]_vars

-----------------------------------------------------------------------------
(* search: properties *)

\* the indices, in order, of the records among the first n that can be parsed
RECURSIVE OkUpTo(_, _)
OkUpTo(recs, n) ==
    IF n = 0 THEN <<>>
    ELSE OkUpTo(recs, n - 1) \o (IF recs[n].shape = "ok" THEN <<n>> ELSE <<>>)

\* the number of records the for loop has gone through
Processed == Len(sin.records)

InLoop == sin.esearch = "ids" /\ sin.efetch = "ok" /\ spc \in {"records", "done"}

\* C6: when esearch returns no identifier, search returns the empty list
\* without raising, and calls neither efetch nor elink.
C6_EmptyResult ==
    spc = "done" /\ sin.esearch = "empty" =>
        /\ sout = Returned(<<>>)
        /\ scalls = <<"esearch">>

C6_Witness == spc = "done" /\ sin.esearch = "empty" /\ sout.kind = "returned"

\* C7: the list holds one article for each record that parses and none for a
\* record that fails, in the order of the batch, at every point of the loop
\* and in what is returned.
C7_PartialFailure ==
    InLoop =>
        LET ok == OkUpTo(sin.records, Processed)
        IN /\ Len(articles) = Len(ok)
           /\ \A k \in 1..Len(ok) : articles[k].pmid = sin.records[ok[k]].pmid
           /\ spc = "done" => sout = Returned(articles)

\* a batch in which a record fails between two that parse
C7_Witness ==
    /\ spc = "done" /\ InLoop
    /\ Len(sin.records) = MaxRecords /\ sin.n = MaxRecords
    /\ sin.records[1].shape = "ok"
    /\ \E i \in 2..Len(sin.records) : sin.records[i].shape # "ok"
    /\ Len(sout.value) >= 1 /\ Len(sout.value) < Len(sin.records)

\* C8: search raises exactly when esearch or efetch fails; a record that
\* fails to parse and a failing citation-count call never make it raise.
C8_FatalVersusDegraded ==
    spc = "done" =>
        /\ sout.kind \in {"raised", "returned"}
        /\ sout.kind = "raised" <=>
              (sin.esearch = "exc" \/ (sin.esearch = "ids" /\ sin.efetch = "exc"))
        /\ sout.kind = "raised" => sout.value = <<>>

\* a returned list after a record that failed to parse and a failed elink call
C8_Witness ==
    /\ spc = "done" /\ sout.kind = "returned"
    /\ \E i \in 1..Len(sin.records) : sin.records[i].shape # "ok"
    /\ \E i \in 1..Len(sin.records) :
          sin.records[i].shape = "ok" /\ sin.elink[i].kind = "exc"

\* the citation count the answer of elink stands for
ExpectedCount(a) ==
    IF a.kind = "exc" THEN Str(NA)
    ELSE IF a.kind = "links" THEN PyInt(a.n)
    ELSE PyInt(0)

\* C9: citation_count is a non-negative integer or the sentinel: the sentinel
\* when the elink call failed (the article is still in the list), 0 when there
\* is no link set, else the number of citing identifiers.
C9_CitationCount ==
    spc = "done" /\ sout.kind = "returned" =>
        LET ok == OkUpTo(sin.records, Len(sin.records))
        IN /\ Len(sout.value) = Len(ok)
           /\ \A k \in 1..Len(sout.value) :
                 LET c == sout.value[k].citation_count
                 IN /\ c = ExpectedCount(sin.elink[ok[k]])
                    /\ c = Str(NA) \/ c.int >= 0

C9_Witness ==
    /\ spc = "done" /\ sout.kind = "returned"
    /\ \E k \in 1..Len(sout.value) : sout.value[k].citation_count = Str(NA)
    /\ \E k \in 1..Len(sout.value) : sout.value[k].citation_count = PyInt(MaxLinks)

ArticleKeys == {"pmid", "pmc_id", "title", "abstract", "authors", "year", "journal", "doi",
                "doi_link", "pdf_link", "url", "citation_count"}

\* the record has no ArticleIdList to read
NoArticleIds(r) == ~(r.PubmedData.has /\ r.PubmedData.v.has)

\* C10: every article of the list has a non-empty pmid and all twelve keys;
\* a part the source record lacks is held as its sentinel.
C10_RecordShape ==
    InLoop =>
        LET ok == OkUpTo(sin.records, Processed)
        IN \A k \in 1..Len(articles) :
              LET a == articles[k]
                  r == sin.records[ok[k]]
              IN /\ DOMAIN a = ArticleKeys
                 /\ a.pmid # <<>>
                 /\ ~r.article.ArticleTitle.has => a.title = NA
                 /\ r.article.Abstract.kind = "absent" => a.abstract = <<>>
                 /\ ~r.article.AuthorList.has => a.authors = <<>>
                 /\ ~r.article.ArticleDate.has /\ ~r.article.PubDate.has => a.year = NA
                 /\ ~r.article.Journal.has => a.journal = NA
                 /\ ~r.article.ELocationID.has /\ NoArticleIds(r) =>
                        a.doi = NA /\ a.doi_link = NA
                 /\ NoArticleIds(r) => a.pmc_id = NA /\ a.pdf_link = NA
                 /\ a.citation_count = Str(NA) \/ a.citation_count.int >= 0

\* an article built from a record that has none of the optional parts
C10_Witness ==
    /\ spc = "done" /\ sout.kind = "returned"
    /\ \E i \in 1..Len(sin.records) :
          /\ sin.records[i].shape = "ok"
          /\ sin.records[i].article = BareArticle
          /\ \E k \in 1..Len(sout.value) :
                sout.value[k].pmid = sin.records[i].pmid /\ sout.value[k].title = NA

-----------------------------------------------------------------------------
(* search: one iteration of the loop on records that vary one part *)

\* a record that has the given article and nothing else
RecordOf(art, data) == [shape |-> "ok", pmid |-> <<>>, article |-> art, PubmedData |-> data]

LastNames == <<"P", "Q", "R", "S", "T", "U", "V">>

\* the author at position i of an AuthorList: with or without initials, or
\* without a last name
AuthorsAt(i) ==
    {Author(Some(<<LastNames[i]>>), Some(<<"A">>)),
     Author(Some(<<LastNames[i]>>), Absent),
     Author(Absent, Some(<<"B">>))}

AuthorLists == UNION {{f \in [1..n -> UNION {AuthorsAt(i) : i \in 1..n}] :
                          \A i \in 1..n : f[i] \in AuthorsAt(i)} : n \in 0..MaxAuthors}

AuthorRecords ==
    {RecordOf([BareArticle EXCEPT !.AuthorList = Some(l)], NoPubmedData) : l \in AuthorLists}

\* the for loop body applied to one record of the set S (elink finds no citation)
ParseFrom(S) ==
    /\ spc = "records"
    /\ idx <= sin.n
    /\ \E r \in S :
          LET rec == [r EXCEPT !.pmid = PmidAt(idx)]
              a == [kind |-> "links", n |-> 0]
          IN /\ sin' = [sin EXCEPT !.records = Append(@, rec), !.elink = Append(@, a)]
             /\ Iteration(rec, a)
    /\ idx' = idx + 1
    /\ UNCHANGED rvars
    /\ UNCHANGED xvars

ParseAuthors == ParseFrom(AuthorRecords)

\* the state of search when the loop starts on a batch of one record
ParseInit ==
    /\ spc = "records"
    /\ sin = [esearch |-> "ids", efetch |-> "ok", n |-> 1, records |-> <<>>, elink |-> <<>>]
    /\ idx = 1
    /\ articles = <<>>
    /\ scalls = <<"esearch", "efetch">>
    /\ sout = [kind |-> "running", value |-> <<>>]
    /\ rpc = "done"
    /\ hint = [kind |-> "none", truthy |-> FALSE, title |-> [t |-> "missing", s |-> <<>>],
               authors |-> "missing", other |-> FALSE]
    /\ env = [pmc |-> "no_ids", biorxiv |-> "exc", medrxiv |-> "exc", arxiv |-> "exc",
              rg |-> "exc"]
    /\ result = EmptyResult
    /\ calls = <<>>
    /\ outcome = "returned"
    /\ fn = FnIdle
    /\ dl = DlIdle
    /\ web = WebIdle

\* a text of n characters that differ from one position to the next
DigitAt == <<"0", "1", "2", "3", "4", "5", "6", "7", "8", "9">>
TextOf(n) == [i \in 1..n |-> DigitAt[(i % 10) + 1]]

\* the lengths of abstract around nothing and around the cap
AbstractLengths ==
    (0..MaxOver) \cup {n \in 0..(AbstractCap + MaxOver) : n >= AbstractCap - MaxOver}

\* Abstract missing, without AbstractText, with one text, or with a list of
\* two texts (joined by a blank, which counts in the length)
AbstractValues ==
    {[kind |-> "absent", parts |-> <<>>], [kind |-> "notext", parts |-> <<>>]}
    \cup {[kind |-> "single", parts |-> <<TextOf(n)>>] : n \in AbstractLengths}
    \cup {[kind |-> "list", parts |-> <<TextOf(k), TextOf(n - k)>>] :
              n \in {m \in AbstractLengths : m >= AbstractCap - MaxOver}, k \in 0..MaxOver}

AbstractRecords ==
    {RecordOf([BareArticle EXCEPT !.Abstract = ab], NoPubmedData) : ab \in AbstractValues}

ParseAbstract == ParseFrom(AbstractRecords)

\* the entries of ELocationID and of ArticleIdList
ELocationEntries == {Id("pii", <<"S">>), Id("doi", <<"D", "1">>), Id("doi", <<"D", "2">>)}
ArticleIdEntries == {Id("pubmed", <<"1">>), Id("doi", <<"D", "3">>), Id("doi", <<"D", "4">>),
                     Id("pmc", <<"P", "M", "C", "7">>)}

IdLists(entries) == UNION {[1..n -> entries] : n \in 0..MaxIds}

\* records with or without ELocationID, PubmedData and ArticleIdList
DoiRecords ==
    {RecordOf([BareArticle EXCEPT !.ELocationID = e], d) :
        e \in {Absent} \cup {Some(l) : l \in IdLists(ELocationEntries)},
        d \in {Absent, Some(Absent)} \cup {Some(Some(l)) : l \in IdLists(ArticleIdEntries)}}

ParseDoi == ParseFrom(DoiRecords)

\* the texts of a MedlineDate
MedlineDates ==
    {<<"2", "0", "2", "3", " ", "J", "a", "n", "-", "F", "e", "b">>,
     <<"W", "i", "n", "t", "e", "r">>,
     <<"F", "a", "l", "l", " ", "1", "9", "9", "9", "-", "2", "0", "0", "0">>,
     <<"2", "0", "2", " ", "3">>}

\* a PubDate element: with a Year, with a MedlineDate, or with neither
PubDates ==
    {[Year |-> Some(<<"2", "0", "2", "0">>), MedlineDate |-> Absent],
     [Year |-> Absent, MedlineDate |-> Absent]}
    \cup {[Year |-> Absent, MedlineDate |-> Some(t)] : t \in MedlineDates}

\* ArticleDate missing, empty, or with one electronic publication date
ArticleDates == {Absent, Some(<<>>), Some(<<Some(<<"2", "0", "2", "1">>)>>)}

\* a Journal element that carries the publication date of its issue
JournalOf(pd) ==
    Some([Title |-> Some(<<"J">>), ISOAbbreviation |-> Absent,
          JournalIssue |-> [PubDate |-> pd]])

\* records whose PubDate is a key of Article, which is where search looks for
\* it, and records whose PubDate is inside Journal/JournalIssue, which is
\* where the records of PubMed carry it
YearRecords ==
    {RecordOf([BareArticle EXCEPT !.ArticleDate = ad], NoPubmedData) : ad \in ArticleDates}
    \cup {RecordOf([BareArticle EXCEPT !.ArticleDate = ad, !.PubDate = Some(pd)],
                   NoPubmedData) : ad \in ArticleDates, pd \in PubDates}
    \cup {RecordOf([BareArticle EXCEPT !.ArticleDate = ad, !.Journal = JournalOf(pd)],
                   NoPubmedData) : ad \in ArticleDates, pd \in PubDates}

ParseYear == ParseFrom(YearRecords)

ParseNext == ParseAuthors \/ ParseAbstract \/ ParseDoi \/ ParseYear \/ SearchReturn

SpecParse == ParseInit /\ [][ParseNext]_vars

\* the record the loop has read, and the article made of it
Parsed == spc = "done" /\ Len(sin.records) = 1 /\ Len(sout.value) = 1
TheRecord == sin.records[1]
TheArticle == sout.value[1]

\* the positions, in order, of the authors among the first n that have a last name
RECURSIVE NamedUpTo(_, _)
NamedUpTo(list, n) ==
    IF n = 0 THEN <<>>
    ELSE NamedUpTo(list, n - 1)
         \o (IF list[n].LastName.has /\ list[n].LastName.v # <<>> THEN <<n>> ELSE <<>>)

\* the number of separators ", " of a joined author text
RECURSIVE Commas(_)
Commas(s) == IF s = <<>> THEN 0 ELSE (IF Head(s) = "," THEN 1 ELSE 0) + Commas(Tail(s))

Min(a, b) == IF a < b THEN a ELSE b

\* C11: the authors of the article are the first three authors that have a
\* last name, in source order, skipping those without; never more than three.
C11_FirstThreeAuthors ==
    Parsed /\ TheRecord.article.AuthorList.has =>
        LET list == TheRecord.article.AuthorList.v
            named == NamedUpTo(list, Len(list))
            kept == [k \in 1..Min(AuthorCap, Len(named)) |-> AuthorDisplay(list[named[k]])]
        IN /\ TheArticle.authors = Join(kept, <<",", " ">>)
           /\ Commas(TheArticle.authors) <= AuthorCap - 1

\* five authors, the first without a last name, the four others with one
C11_Witness ==
    /\ Parsed /\ TheRecord.article.AuthorList.has
    /\ LET list == TheRecord.article.AuthorList.v
       IN /\ Len(list) = 5
          /\ ~list[1].LastName.has
          /\ Len(NamedUpTo(list, 5)) = 4
    /\ Commas(TheArticle.authors) = AuthorCap - 1

\* C12: the abstract of an article has at most 500 + 3 characters: a text of
\* at most 500 characters is kept as it is, a longer one becomes its first 500
\* characters followed by "...".
C12_AbstractBound ==
    Parsed =>
        LET full == ExtractAbstract(TheRecord.article.Abstract)
        IN /\ Len(TheArticle.abstract) <= AbstractCap + Len(Ellipsis)
           /\ Len(full) <= AbstractCap => TheArticle.abstract = full
           /\ Len(full) > AbstractCap =>
                 TheArticle.abstract = SubSeq(full, 1, AbstractCap) \o <<".", ".", ".">>

\* an abstract of exactly 500 characters, made of two texts, is kept whole
C12_Witness ==
    /\ Parsed
    /\ TheRecord.article.Abstract.kind = "list"
    /\ Len(ExtractAbstract(TheRecord.article.Abstract)) = AbstractCap
    /\ Len(TheArticle.abstract) = AbstractCap

IsDoi(e) == e.type = "doi"

\* the DOI entries of the article level and of the record level of a record
ArticleLevelDois(r) ==
    IF r.article.ELocationID.has THEN SelectSeq(r.article.ELocationID.v, IsDoi) ELSE <<>>
RecordLevelDois(r) ==
    IF r.PubmedData.has /\ r.PubmedData.v.has THEN SelectSeq(r.PubmedData.v.v, IsDoi) ELSE <<>>

\* C13: the doi of an article is the first DOI of ELocationID when there is
\* one, whatever ArticleIdList holds; otherwise it is the first DOI of
\* ArticleIdList; otherwise it is "N/A".
C13_DoiPrecedence ==
    Parsed =>
        LET a == ArticleLevelDois(TheRecord)
            b == RecordLevelDois(TheRecord)
        IN TheArticle.doi = IF a # <<>> THEN a[1].v ELSE IF b # <<>> THEN b[1].v ELSE NA

\* two DOIs at the article level and one, different, at the record level
C13_Witness ==
    /\ Parsed
    /\ Len(ArticleLevelDois(TheRecord)) = 2
    /\ ArticleLevelDois(TheRecord)[1] # ArticleLevelDois(TheRecord)[2]
    /\ Len(RecordLevelDois(TheRecord)) = 1
    /\ TheArticle.doi = ArticleLevelDois(TheRecord)[1].v

\* the publication date of a record, at either place
PubDateOf(r) ==
    IF r.article.PubDate.has THEN r.article.PubDate
    ELSE IF r.article.Journal.has /\ "JournalIssue" \in DOMAIN r.article.Journal.v
      THEN Some(r.article.Journal.v.JournalIssue.PubDate)
    ELSE Absent

\* C14: the year is the explicit year of the record when it has one; without
\* one, the first 4-digit number of its MedlineDate text; "N/A" only when that
\* fails too.
C14_YearFallback ==
    Parsed =>
        LET ad == TheRecord.article.ArticleDate
            pd == PubDateOf(TheRecord)
            m == IF pd.has /\ pd.v.MedlineDate.has THEN FirstFourDigits(pd.v.MedlineDate.v)
                 ELSE Absent
        IN TheArticle.year = IF ad.has /\ ad.v # <<>> THEN ad.v[1].v
                             ELSE IF pd.has /\ pd.v.Year.has THEN pd.v.Year.v
                             ELSE IF m.has THEN m.v
                             ELSE NA

\* C25: in every returned article doi_link is "https://doi.org/" followed by
\* doi when doi is not "N/A" and is "N/A" when doi is "N/A", in both
\* directions; and pdf_link is "N/A" exactly when pmc_id is "N/A".
C25_LinksDerived ==
    Parsed =>
        /\ TheArticle.doi # NA <=> TheArticle.doi_link = DoiPrefix \o TheArticle.doi
        /\ TheArticle.doi = NA <=> TheArticle.doi_link = NA
        /\ TheArticle.pmc_id = NA <=> TheArticle.pdf_link = NA

\* a record with a DOI at the article level, another one and a PMC id in
\* ArticleIdList: both links are built
C25_Witness ==
    /\ Parsed
    /\ ArticleLevelDois(TheRecord) # <<>> /\ RecordLevelDois(TheRecord) # <<>>
    /\ TheArticle.doi_link = DoiPrefix \o ArticleLevelDois(TheRecord)[1].v
    /\ TheArticle.pmc_id # NA
    /\ TheArticle.pdf_link = PmcPrefix \o TheArticle.pmc_id \o PdfSuffix

-----------------------------------------------------------------------------
(* search: the order of the requests *)

\* C18: in every execution of search each elink call comes right after a
\* delay, so two elink calls always have a delay between them, also when the
\* earlier of the two failed.
C18_DelayBeforeElink ==
    /\ \A i \in 1..Len(scalls) : scalls[i] = "elink" => i > 1 /\ scalls[i - 1] = "sleep"
    /\ \A i, j \in 1..Len(scalls) :
          i < j /\ scalls[i] = "elink" /\ scalls[j] = "elink" =>
              \E k \in (i + 1)..(j - 1) : scalls[k] = "sleep"

\* two elink calls, of which the first failed
C18_Witness ==
    /\ Len(sin.elink) >= 2
    /\ sin.elink[1].kind = "exc"
    /\ sin.elink[2].kind # "uncalled"
    /\ Len(SelectSeq(scalls, LAMBDA c : c = "elink")) = 2

-----------------------------------------------------------------------------
(* the date filter of search *)

\* Python's truth value of an Optional[str]
Truthy(v) == v # None /\ v.str # <<>>

\* a filter that treats a pair of bounds as a lower bound alone
FullQuery_FromOnly(query, date_from, date_to) ==
    IF Truthy(date_from)
      THEN query \o <<" ", "A", "N", "D", " ", "(">> \o date_from.str \o <<"[", "P", "D", "A", "T", "]", " ", ":", " ", "3", "0", "0", "0", "[", "P", "D", "A", "T", "]", ")">>
    ELSE IF Truthy(date_to)
      THEN query \o <<" ", "A", "N", "D", " ", "(", "0", "0", "0", "1", "[", "P", "D", "A", "T", "]", " ", ":", " ">> \o date_to.str \o <<"[", "P", "D", "A", "T", "]", ")">>
    ELSE query

\* full_query = query + date_filter
FullQuery(query, date_from, date_to) ==
    IF Truthy(date_from) \/ Truthy(date_to)
      THEN IF Truthy(date_from) /\ Truthy(date_to)
             THEN query \o <<" ", "A", "N", "D", " ", "(">> \o date_from.str \o <<":">> \o date_to.str
                        \o <<"[", "P", "D", "A", "T", "]", ")">>
           ELSE IF Truthy(date_from)
             THEN query \o <<" ", "A", "N", "D", " ", "(">> \o date_from.str \o <<"[", "P", "D", "A", "T", "]", " ", ":", " ", "3", "0", "0", "0", "[", "P", "D", "A", "T", "]", ")">>
           ELSE query \o <<" ", "A", "N", "D", " ", "(", "0", "0", "0", "1", "[", "P", "D", "A", "T", "]", " ", ":", " ">> \o date_to.str \o <<"[", "P", "D", "A", "T", "]", ")">>
    ELSE query

\* the queries and the date bounds of a call: a bound is None, empty, a year
\* or a day
Queries == {<<"f", "l", "u">>, <<"a", " ", "A", "N", "D", " ", "b">>, <<>>}
DateBounds == {None, Str(<<>>), Str(<<"2", "0", "2", "0">>), Str(<<"2", "0", "2", "1">>), Str(<<"2", "0", "2", "0", "/", "0", "1", "/", "3", "1">>)}

QueryCalls ==
    {[name |-> "full_query", in |-> [query |-> q, date_from |-> f, date_to |-> t],
      out |-> <<>>, done |-> FALSE] : q \in Queries, f \in DateBounds, t \in DateBounds}

\* search builds the query it sends to esearch
ApplyFullQuery ==
    /\ fn.name = "full_query" /\ ~fn.done
    /\ fn' = [fn EXCEPT !.out = FullQuery(fn.in.query, fn.in.date_from, fn.in.date_to),
                        !.done = TRUE]
    /\ UNCHANGED rvars
    /\ UNCHANGED svars
    /\ UNCHANGED <<dl, web>>

-----------------------------------------------------------------------------
(* interactive_selection *)

NumArticles == 3

\* str.lower() on the letters of the input
LowerChar(c) == CASE c = "A" -> "a" [] c = "L" -> "l" [] OTHER -> c
Lower(s) == [i \in 1..Len(s) |-> LowerChar(s[i])]

\* selection.replace('-', ' ')
DashToBlank(s) == [i \in 1..Len(s) |-> IF s[i] = "-" THEN " " ELSE s[i]]

\* str.split(): the maximal runs of characters other than the blank
RECURSIVE SplitFrom(_, _)
SplitFrom(s, cur) ==
    IF s = <<>> THEN (IF cur = <<>> THEN <<>> ELSE <<cur>>)
    ELSE IF Head(s) = " " THEN (IF cur = <<>> THEN <<>> ELSE <<cur>>) \o SplitFrom(Tail(s), <<>>)
    ELSE SplitFrom(Tail(s), Append(cur, Head(s)))
Split(s) == SplitFrom(s, <<>>)

\* str.isdigit() and int()
IsDigit(part) == part # <<>> /\ \A i \in 1..Len(part) : part[i] \in Digits
DigitValue(c) == CHOOSE d \in 0..9 : DigitAt[d + 1] = c
RECURSIVE ToInt(_)
ToInt(part) ==
    IF part = <<>> THEN 0 ELSE 10 * ToInt(SubSeq(part, 1, Len(part) - 1)) + DigitValue(part[Len(part)])

\* the loop over parts: the index of each number that names an article
RECURSIVE SelectedIndices(_, _)
SelectedIndices(parts, n) ==
    IF parts = <<>> THEN <<>>
    ELSE (IF IsDigit(parts[1]) /\ 0 <= ToInt(parts[1]) - 1 /\ ToInt(parts[1]) - 1 < n
            THEN <<ToInt(parts[1]) - 1>> ELSE <<>>)
         \o SelectedIndices(Tail(parts), n)

All == <<"a", "l", "l">>

\* interactive_selection: the PMIDs of the articles the line selects
InteractiveSelection(line, arts) ==
    LET selection == Lower(Strip(line))
        selected_indices == IF selection = All THEN [i \in 1..Len(arts) |-> i - 1]
                            ELSE SelectedIndices(Split(DashToBlank(selection)), Len(arts))
    IN [k \in 1..Len(selected_indices) |-> arts[selected_indices[k] + 1].pmid]

\* the articles on display: only the PMID matters to the selection
Shown == [i \in 1..NumArticles |-> [pmid |-> PmidAt(i)]]

LineChars == {"1", "2", "3", "-", " "}
Lines == UNION {[1..n -> LineChars] : n \in 0..MaxLine}
            \cup {All, <<"A", "L", "L">>, <<" ", "A", "l", "l", " ">>}

SelectionCalls ==
    {[name |-> "selection", in |-> [line |-> l, articles |-> Shown], out |-> <<>>,
      done |-> FALSE] : l \in Lines}

\* the user answers the prompt
ApplySelection ==
    /\ fn.name = "selection" /\ ~fn.done
    /\ fn' = [fn EXCEPT !.out = InteractiveSelection(fn.in.line, fn.in.articles), !.done = TRUE]
    /\ UNCHANGED rvars
    /\ UNCHANGED svars
    /\ UNCHANGED <<dl, web>>

-----------------------------------------------------------------------------
(* the CSV file that main writes and the web server reads back *)

CR == "\r"
LF == "\n"

\* str(n) for n >= 0
RECURSIVE IntToText(_)
IntToText(n) == IF n < 10 THEN <<DigitAt[n + 1]>> ELSE IntToText(n \div 10) \o <<DigitAt[(n % 10) + 1]>>

\* the text the csv writer makes of a value: str(value)
TextForm(v) == IF v = None THEN <<>>
               ELSE IF "int" \in DOMAIN v THEN IntToText(v.int)
               ELSE v.str

\* the fieldnames of the DictWriter, in the order of the columns
Fieldnames ==
    <<<<"P", "M", "I", "D">>,
      <<"P", "M", "C", "_", "I", "D">>,
      <<"T", "i", "t", "l", "e">>,
      <<"C", "i", "t", "a", "t", "i", "o", "n", "_", "C", "o", "u", "n", "t">>,
      <<"A", "u", "t", "h", "o", "r", "s">>,
      <<"J", "o", "u", "r", "n", "a", "l">>,
      <<"Y", "e", "a", "r">>,
      <<"D", "O", "I">>,
      <<"D", "O", "I", "_", "L", "i", "n", "k">>,
      <<"P", "D", "F", "_", "L", "i", "n", "k">>,
      <<"P", "u", "b", "M", "e", "d", "_", "U", "R", "L">>>>

\* the dict given to writer.writerow, in the order of the fieldnames
CsvRow(article) ==
    <<Str(article.pmid),
      Str(article.pmc_id),
      Str(article.title),
      article.citation_count,
      Str(article.authors),
      Str(article.journal),
      Str(article.year),
      Str(article.doi),
      Str(article.doi_link),
      Str(article.pdf_link),
      Str(article.url)>>

\* " doubled, as the excel dialect does inside a quoted field
RECURSIVE DoubleQuotes(_)
DoubleQuotes(f) ==
    IF f = <<>> THEN <<>>
    ELSE (IF Head(f) = "\"" THEN <<"\"", "\"">> ELSE <<Head(f)>>) \o DoubleQuotes(Tail(f))

\* a writer that never quotes a field
CsvField_Raw(f) == f

\* QUOTE_MINIMAL: a field is quoted when it holds the delimiter, the quote
\* character or a character of the line terminator
CsvField(f) ==
    IF \E i \in 1..Len(f) : f[i] \in {",", "\"", CR, LF}
      THEN <<"\"">> \o DoubleQuotes(f) \o <<"\"">>
    ELSE f

\* one line of the file: the fields, the delimiter between them, and "\r\n"
CsvLine(values) ==
    Join([k \in 1..Len(values) |-> CsvField(TextForm(values[k]))], <<",">>) \o <<CR, LF>>

\* writeheader, then writerow for each article; the file is opened with
\* newline='', so the characters reach the file as they are
RECURSIVE WriteRows(_)
WriteRows(arts) == IF arts = <<>> THEN <<>> ELSE CsvLine(CsvRow(Head(arts))) \o WriteRows(Tail(arts))
WriteCsv(arts) == CsvLine([k \in 1..Len(Fieldnames) |-> Str(Fieldnames[k])]) \o WriteRows(arts)

\* open(latest_csv, 'r') without newline='': "\r\n" and "\r" are read as "\n"
UniversalNewlines(t) ==
    SelectSeq([i \in 1..Len(t) |-> IF t[i] = LF /\ i > 1 /\ t[i - 1] = CR THEN ""
                                   ELSE IF t[i] = CR THEN LF ELSE t[i]],
              LAMBDA c : c # "")

ReaderStates == {"in_field", "in_quoted", "quote_in_quoted"}

\* the csv reader inside a field that began with a quote, from position pos:
\* st is the state of the reader and field the characters read so far; the
\* result is the field and the position of the delimiter or line end that
\* ends it (one past the end of the text when the text ends first)
ScanField(t) ==
    LET scan[pos \in 1..(Len(t) + 1), st \in ReaderStates, field \in Seq(STRING)] ==
          IF pos > Len(t) THEN [text |-> field, end |-> pos]
          ELSE CASE st \in {"in_field", "quote_in_quoted"} /\ t[pos] \in {",", LF} ->
                      [text |-> field, end |-> pos]
                 [] st = "in_quoted" /\ t[pos] = "\"" -> scan[pos + 1, "quote_in_quoted", field]
                 [] st = "in_quoted" /\ t[pos] # "\"" ->
                      scan[pos + 1, "in_quoted", Append(field, t[pos])]
                 [] st = "quote_in_quoted" /\ t[pos] = "\"" ->
                      scan[pos + 1, "in_quoted", Append(field, t[pos])]
                 [] OTHER -> scan[pos + 1, "in_field", Append(field, t[pos])]
    IN scan

\* the position of the delimiter or line end that ends the unquoted field
\* starting at from; one past the end of the text when there is none
FieldEnd(t, from) ==
    LET ends == {i \in from..Len(t) : t[i] \in {",", LF}}
    IN IF ends = {} THEN Len(t) + 1 ELSE CHOOSE i \in ends : \A j \in ends : i <= j

\* the field that starts at pos, and the position of what ends it
ReadField(t, pos) ==
    IF pos <= Len(t) /\ t[pos] = "\"" THEN ScanField(t)[pos + 1, "in_quoted", <<>>]
    ELSE [text |-> SubSeq(t, pos, FieldEnd(t, pos) - 1), end |-> FieldEnd(t, pos)]

\* the record that starts at pos, and the position after its line end
ReadRecord(t) ==
    LET rec[pos \in 1..(Len(t) + 1), row \in Seq(Seq(STRING))] ==
          LET f == ReadField(t, pos)
          IN IF f.end > Len(t) \/ t[f.end] = LF
               THEN [row |-> Append(row, f.text), next |-> f.end + 1]
             ELSE rec[f.end + 1, Append(row, f.text)]
    IN rec

\* the csv reader: the list of the records of the text, an empty line giving
\* an empty record
ParseCsv(t) ==
    LET parse[pos \in 1..(Len(t) + 2)] ==
          IF pos > Len(t) THEN <<>>
          ELSE IF t[pos] = LF THEN <<<<>>>> \o parse[pos + 1]
          ELSE LET rr == ReadRecord(t)[pos, <<>>]
               IN <<rr.row>> \o parse[rr.next]
    IN parse[1]

\* csv.DictReader: the first record gives the keys; an empty record is
\* skipped; a record shorter than the keys gets None for the missing values,
\* and the values beyond the keys go under the key None
NonEmptyRows(rows) == SelectSeq(rows, LAMBDA r : r # <<>>)
DictOf(names, row) ==
    [k \in 1..Len(names) |-> <<Str(names[k]), IF k <= Len(row) THEN Str(row[k]) ELSE None>>]
    \o (IF Len(row) > Len(names) THEN <<<<None, SubSeq(row, Len(names) + 1, Len(row))>>>>
        ELSE <<>>)
DictReader(t) ==
    LET rows == NonEmptyRows(ParseCsv(UniversalNewlines(t)))
    IN IF rows = <<>> THEN <<>>
       ELSE [k \in 1..(Len(rows) - 1) |-> DictOf(rows[1], rows[k + 1])]

\* the characters of a title that the csv dialect treats
CellChars == {",", "\"", LF}
Cells == UNION {[1..n -> CellChars] : n \in 0..MaxCell}
            \cup {<<"\"", "\"">>, <<"\"", ",">>, <<LF, "\"">>, <<"a", "\"", "a">>, <<",", LF, ",">>}

\* an article as search returns it, with the given title and citation count
ArticleWith(title, count) ==
    MakeArticle([pmid |-> PmidAt(1), pmc_id |-> <<"P", "M", "C", "7">>, title |-> title,
                 abstract |-> <<"a">>, authors |-> <<<<"X", " ", "A">>, <<"Y">>>>,
                 year |-> <<"2", "0", "2", "1">>, journal |-> <<"J">>,
                 doi |-> <<"D", "1">>, doi_link |-> DoiPrefix \o <<"D", "1">>], count)

\* the articles of an export: every title with one count, and one plain
\* title with every kind of count
ExportArticles ==
    {ArticleWith(t, PyInt(12)) : t \in Cells}
    \cup {ArticleWith(<<"T">>, c) : c \in {None, PyInt(0), PyInt(305)}}

CsvCalls ==
    {[name |-> "csv", in |-> [articles |-> l], out |-> <<>>, done |-> FALSE]
        : l \in UNION {[1..n -> ExportArticles] : n \in 0..MaxRows}}

\* main writes the CSV file of the selected articles
ApplyExport ==
    /\ fn.name = "csv" /\ ~fn.done /\ fn.out = <<>>
    /\ fn' = [fn EXCEPT !.out = [file |-> WriteCsv(fn.in.articles)]]
    /\ UNCHANGED rvars
    /\ UNCHANGED svars
    /\ UNCHANGED <<dl, web>>

\* the web server reads the file back with DictReader
ApplyReadBack ==
    /\ fn.name = "csv" /\ ~fn.done /\ fn.out # <<>>
    /\ fn' = [fn EXCEPT !.out = [file |-> fn.out.file, results |-> DictReader(fn.out.file)],
                        !.done = TRUE]
    /\ UNCHANGED rvars
    /\ UNCHANGED svars
    /\ UNCHANGED <<dl, web>>

-----------------------------------------------------------------------------
(* the operations above, each applied to one input *)

FunctionsInit ==
    /\ fn \in QueryCalls \cup SelectionCalls \cup CsvCalls
    /\ dl = DlIdle
    /\ web = WebIdle
    /\ rpc = "done"
    /\ hint = [kind |-> "none", truthy |-> FALSE, title |-> [t |-> "missing", s |-> <<>>],
               authors |-> "missing", other |-> FALSE]
    /\ env = [pmc |-> "no_ids", biorxiv |-> "exc", medrxiv |-> "exc", arxiv |-> "exc",
              rg |-> "exc"]
    /\ result = EmptyResult
    /\ calls = <<>>
    /\ outcome = "returned"
    /\ spc = "done"
    /\ sin = [esearch |-> "empty", efetch |-> "ok", n |-> 0, records |-> <<>>, elink |-> <<>>]
    /\ idx = 1
    /\ articles = <<>>
    /\ scalls = <<>>
    /\ sout = [kind |-> "returned", value |-> <<>>]

FunctionsNext == ApplyFullQuery \/ ApplySelection \/ ApplyExport \/ ApplyReadBack

SpecFunctions == FunctionsInit /\ [][FunctionsNext]_vars

\* C15: with both bounds the query sent is the user's query followed by one
\* range filter from date_from to date_to; with one bound the filter is open
\* on the other side (up to year 3000, or from year 0001); with no bound, or
\* with both empty, the query is sent as it is.
C15_DateFilter ==
    fn.name = "full_query" /\ fn.done =>
        LET q == fn.in.query
            f == fn.in.date_from
            t == fn.in.date_to
            hasFrom == f # None /\ f # Str(<<>>)
            hasTo == t # None /\ t # Str(<<>>)
        IN /\ hasFrom /\ hasTo =>
                fn.out = q \o <<" ", "A", "N", "D", " ", "(">> \o f.str \o <<":">> \o t.str \o <<"[", "P", "D", "A", "T", "]", ")">>
           /\ hasFrom /\ ~hasTo =>
                fn.out = q \o <<" ", "A", "N", "D", " ", "(">> \o f.str \o <<"[", "P", "D", "A", "T", "]", " ", ":", " ", "3", "0", "0", "0", "[", "P", "D", "A", "T", "]", ")">>
           /\ ~hasFrom /\ hasTo =>
                fn.out = q \o <<" ", "A", "N", "D", " ", "(", "0", "0", "0", "1", "[", "P", "D", "A", "T", "]", " ", ":", " ">> \o t.str \o <<"[", "P", "D", "A", "T", "]", ")">>
           /\ ~hasFrom /\ ~hasTo => fn.out = q

\* a call with two different bounds
C15_Witness ==
    /\ fn.name = "full_query" /\ fn.done
    /\ fn.in.date_from = Str(<<"2", "0", "2", "0">>) /\ fn.in.date_to = Str(<<"2", "0", "2", "1">>)
    /\ Len(fn.out) > Len(fn.in.query)

\* the decimal text of a citation count, "N/A" for the sentinel
CountText(c) == IF c = Str(NA) THEN NA ELSE IntToText(c.int)

\* the row the reader is to give for an article: the columns in their order,
\* each with the text of the field of the article
ExpectedRow(a) ==
    <<<<Str(<<"P", "M", "I", "D">>), Str(a.pmid)>>,
      <<Str(<<"P", "M", "C", "_", "I", "D">>), Str(a.pmc_id)>>,
      <<Str(<<"T", "i", "t", "l", "e">>), Str(a.title)>>,
      <<Str(<<"C", "i", "t", "a", "t", "i", "o", "n", "_", "C", "o", "u", "n", "t">>), Str(CountText(a.citation_count))>>,
      <<Str(<<"A", "u", "t", "h", "o", "r", "s">>), Str(a.authors)>>,
      <<Str(<<"J", "o", "u", "r", "n", "a", "l">>), Str(a.journal)>>,
      <<Str(<<"Y", "e", "a", "r">>), Str(a.year)>>,
      <<Str(<<"D", "O", "I">>), Str(a.doi)>>,
      <<Str(<<"D", "O", "I", "_", "L", "i", "n", "k">>), Str(a.doi_link)>>,
      <<Str(<<"P", "D", "F", "_", "L", "i", "n", "k">>), Str(a.pdf_link)>>,
      <<Str(<<"P", "u", "b", "M", "e", "d", "_", "U", "R", "L">>), Str(a.url)>>>>

Chosen == {k \in 1..Len(fn.in.articles) : \E i \in 1..Len(fn.out) : fn.out[i] = PmidAt(k)}

\* C19: the line 'a-b' selects the articles a to b, both included; numbers
\* separated by blanks select those articles; 'all' selects every article.
C19_SelectionRange ==
    fn.name = "selection" /\ fn.done =>
        LET line == fn.in.line
            n == Len(fn.in.articles)
            parts == Split(line)
        IN /\ (Len(line) = 3 /\ IsDigit(<<line[1]>>) /\ line[2] = "-" /\ IsDigit(<<line[3]>>)
                 /\ 1 <= ToInt(<<line[1]>>) /\ ToInt(<<line[1]>>) <= ToInt(<<line[3]>>)
                 /\ ToInt(<<line[3]>>) <= n)
              => Chosen = ToInt(<<line[1]>>)..ToInt(<<line[3]>>)
           /\ (parts # <<>> /\ \A i \in 1..Len(parts) :
                                  IsDigit(parts[i]) /\ ToInt(parts[i]) \in 1..n)
              => Chosen = {ToInt(parts[i]) : i \in 1..Len(parts)}
           /\ line = All => Chosen = 1..n

-----------------------------------------------------------------------------
(* download_pdf *)

\* the bodies of a response, and what the file at output_path holds before
Contents == UNION {[1..n -> {"%", "P"}] : n \in 0..MaxContent}
NoFile == [none |-> TRUE]

\* the final status codes of a GET, redirects followed
StatusCodes == {200, 204, 304, 399, 400, 404, 451, 500, 599}

\* the ways session.get raises: no connection, the timeout of 30 s, the
\* retries on 429 and 5xx used up
GetErrors == {"ConnectionError", "Timeout", "RetryError"}

DownloadCalls ==
    {[pc |-> "get", url |-> u, file |-> f, status |-> 0, content |-> <<>>, error |-> "none",
      ret |-> "none", raised |-> FALSE] : u \in {"pdf_link", "doi_link"},
                                          f \in {NoFile, Str(<<"o", "l", "d">>)}}

\* except Exception: log, return False
OnDownloadError(d) == [d EXCEPT !.pc = "done", !.ret = FALSE]

\* a status check that passes the client errors
RaisesForStatus_ServerOnly(status) == 500 <= status /\ status < 600

\* response.raise_for_status() raises HTTPError for 4xx and 5xx
RaisesForStatus(status) == 400 <= status /\ status < 600

\* response = self.session.get(url, timeout=30)
DownloadGet ==
    /\ dl.pc = "get"
    /\ \/ \E e \in GetErrors : dl' = OnDownloadError([dl EXCEPT !.error = "request"])
       \/ \E st \in StatusCodes, c \in Contents :
             dl' = [dl EXCEPT !.pc = "check", !.status = st, !.content = c]
    /\ UNCHANGED rvars
    /\ UNCHANGED svars
    /\ UNCHANGED <<fn, web>>

\* response.raise_for_status()
DownloadCheck ==
    /\ dl.pc = "check"
    /\ dl' = IF RaisesForStatus(dl.status) THEN OnDownloadError([dl EXCEPT !.error = "status"])
             ELSE [dl EXCEPT !.pc = "open"]
    /\ UNCHANGED rvars
    /\ UNCHANGED svars
    /\ UNCHANGED <<fn, web>>

\* open(output_path, 'wb'): the file is created or emptied, or open raises
DownloadOpen ==
    /\ dl.pc = "open"
    /\ \/ dl' = OnDownloadError([dl EXCEPT !.error = "open"])
       \/ dl' = [dl EXCEPT !.pc = "write", !.file = Str(<<>>)]
    /\ UNCHANGED rvars
    /\ UNCHANGED svars
    /\ UNCHANGED <<fn, web>>

\* f.write(response.content), the file is closed, return True; or the write
\* raises with only a part of the content on disk
DownloadWrite ==
    /\ dl.pc = "write"
    /\ \/ \E n \in 0..Len(dl.content) :
             dl' = OnDownloadError([dl EXCEPT !.error = "write",
                                              !.file = Str(SubSeq(dl.content, 1, n))])
       \/ dl' = [dl EXCEPT !.pc = "done", !.file = Str(dl.content), !.ret = TRUE]
    /\ UNCHANGED rvars
    /\ UNCHANGED svars
    /\ UNCHANGED <<fn, web>>

DownloadInit ==
    /\ dl \in DownloadCalls
    /\ fn = FnIdle
    /\ web = WebIdle
    /\ rpc = "done"
    /\ hint = [kind |-> "none", truthy |-> FALSE, title |-> [t |-> "missing", s |-> <<>>],
               authors |-> "missing", other |-> FALSE]
    /\ env = [pmc |-> "no_ids", biorxiv |-> "exc", medrxiv |-> "exc", arxiv |-> "exc",
              rg |-> "exc"]
    /\ result = EmptyResult
    /\ calls = <<>>
    /\ outcome = "returned"
    /\ spc = "done"
    /\ sin = [esearch |-> "empty", efetch |-> "ok", n |-> 0, records |-> <<>>, elink |-> <<>>]
    /\ idx = 1
    /\ articles = <<>>
    /\ scalls = <<>>
    /\ sout = [kind |-> "returned", value |-> <<>>]

DownloadNext == DownloadGet \/ DownloadCheck \/ DownloadOpen \/ DownloadWrite

SpecDownload == DownloadInit /\ [][DownloadNext]_vars

\* C17: download_pdf never raises and ends with a boolean: True only when
\* the GET gave a response of a status below 400 and the file holds its
\* content; False after a request error, an error status or a write error.
C17_DownloadBoolean ==
    /\ ~dl.raised
    /\ dl.pc = "done" =>
          /\ dl.ret \in BOOLEAN
          /\ dl.ret = TRUE => /\ dl.error = "none"
                              /\ dl.status \in StatusCodes /\ dl.status < 400
                              /\ dl.file = Str(dl.content)
          /\ dl.error \in {"request", "status", "open", "write"} => dl.ret = FALSE
          /\ dl.status >= 400 => dl.ret = FALSE

\* a call that failed on the status 404 and left the old file as it was
C17_Witness ==
    /\ dl.pc = "done"
    /\ dl.status = 404 /\ dl.error = "status"
    /\ dl.ret = FALSE
    /\ dl.file = Str(<<"o", "l", "d">>)

-----------------------------------------------------------------------------
(* the web server: POST /api/search *)

\* the queries of the requests: two that match articles, one that matches none
MatchingQueries == {"Q1", "Q2"}
ZeroQuery == "QZ"

\* the JSON bodies of the requests: email and query present, empty or
\* missing (both falsy under `not data.get(...)`), or a body that is no
\* JSON object
Bodies ==
    {[kind |-> "object", email |-> e, query |-> q] :
        e \in {"me@x.org", ""}, q \in MatchingQueries \cup {ZeroQuery, ""}}
    \cup {[kind |-> "malformed", email |-> "", query |-> ""]}

\* the rows of the CSV file that main writes for a query: what matters of a
\* row is the query that produced it
RowsOf(q) == <<[query |-> q, row |-> 1], [query |-> q, row |-> 2]>>

\* pubmed_results_{sanitized_query}_{date}.csv, within one day
CsvName(q) == <<"pubmed_results", q>>

\* what searcher.search does in the subprocess: it returns articles, returns
\* none, raises, or is still running when the 180 s are over
SearchOutcomes(q) ==
    IF q \in MatchingQueries THEN {"found", "raised", "timeout"}
    ELSE {"empty", "raised", "timeout"}

NoResponse == [status |-> 0]
ErrorResponse(status, error) == [status |-> status, error |-> error]
SuccessResponse(results) ==
    [status |-> 200, success |-> TRUE, results |-> results, count |-> Len(results)]

\* the state of the server: the files of pubmed_downloads, the clock of their
\* modification times, the query of search_metadata.json and the requests
WebStart ==
    {[pc |-> "serving", dir |-> {}, clock |-> 0, meta |-> "",
      reqs |-> [i \in 1..NumRequests |->
                   [pc |-> "new", body |-> b[i], search |-> "none", returncode |-> 0,
                    response |-> NoResponse]]] : b \in [1..NumRequests -> Bodies]}

\* a handler that checks the email only
WebValidate_EmailOnly ==
    /\ web.pc = "serving"
    /\ \E i \in 1..NumRequests :
          LET r == web.reqs[i]
          IN /\ r.pc = "new"
             /\ web' = [web EXCEPT !.reqs[i] =
                   IF r.body.kind # "object"
                     THEN [r EXCEPT !.pc = "responded",
                                    !.response = ErrorResponse(500, "exception")]
                   ELSE IF r.body.email = ""
                     THEN [r EXCEPT !.pc = "responded",
                                    !.response = ErrorResponse(400, "required")]
                   ELSE [r EXCEPT !.pc = "run"]]
    /\ UNCHANGED rvars
    /\ UNCHANGED svars
    /\ UNCHANGED <<fn, dl>>

\* the handler up to the subprocess: the body is read and validated
WebValidate ==
    /\ web.pc = "serving"
    /\ \E i \in 1..NumRequests :
          LET r == web.reqs[i]
          IN /\ r.pc = "new"
             /\ web' = [web EXCEPT !.reqs[i] =
                   IF r.body.kind # "object"
                     THEN [r EXCEPT !.pc = "responded",
                                    !.response = ErrorResponse(500, "exception")]
                   ELSE IF r.body.email = "" \/ r.body.query = ""
                     THEN [r EXCEPT !.pc = "responded",
                                    !.response = ErrorResponse(400, "required")]
                   ELSE [r EXCEPT !.pc = "run"]]
    /\ UNCHANGED rvars
    /\ UNCHANGED svars
    /\ UNCHANGED <<fn, dl>>

\* main in the subprocess: with no article it returns before any file is
\* written; with articles it writes the CSV file, replacing one of the same
\* name, and the metadata; an exception of search ends it with a non-zero code
WebRun ==
    /\ web.pc = "serving"
    /\ \E i \in 1..NumRequests :
          LET r == web.reqs[i]
              q == r.body.query
          IN /\ r.pc = "run"
             /\ \E o \in SearchOutcomes(q) :
                   web' = IF o = "found"
                            THEN [web EXCEPT
                                    !.dir = {f \in @ : f.name # CsvName(q)}
                                            \cup {[name |-> CsvName(q), mtime |-> web.clock + 1,
                                                   rows |-> RowsOf(q)]},
                                    !.clock = @ + 1,
                                    !.meta = q,
                                    !.reqs[i] = [r EXCEPT !.pc = "ran", !.search = o]]
                          ELSE [web EXCEPT
                                    !.reqs[i] = [r EXCEPT !.pc = "ran", !.search = o,
                                                          !.returncode = IF o = "raised" THEN 1
                                                                         ELSE 0]]
    /\ UNCHANGED rvars
    /\ UNCHANGED svars
    /\ UNCHANGED <<fn, dl>>

\* the file of the directory with the greatest modification time
LatestCsv(dir) == CHOOSE f \in dir : \A g \in dir : g.mtime <= f.mtime

\* the handler after subprocess.run: TimeoutExpired gives 504, a non-zero
\* code 500, no CSV file 500, else the rows of the most recent CSV file
Respond(r, dir) ==
    IF r.search = "timeout" THEN ErrorResponse(504, "timeout")
    ELSE IF r.returncode # 0 THEN ErrorResponse(500, "failed")
    ELSE IF dir = {} THEN ErrorResponse(500, "nofile")
    ELSE SuccessResponse(LatestCsv(dir).rows)

WebRespond ==
    /\ web.pc = "serving"
    /\ \E i \in 1..NumRequests :
          LET r == web.reqs[i]
          IN /\ r.pc = "ran"
             /\ web' = [web EXCEPT !.reqs[i] =
                          [r EXCEPT !.pc = "responded", !.response = Respond(r, web.dir)]]
    /\ UNCHANGED rvars
    /\ UNCHANGED svars
    /\ UNCHANGED <<fn, dl>>

WebInit ==
    /\ web \in WebStart
    /\ fn = FnIdle
    /\ dl = DlIdle
    /\ rpc = "done"
    /\ hint = [kind |-> "none", truthy |-> FALSE, title |-> [t |-> "missing", s |-> <<>>],
               authors |-> "missing", other |-> FALSE]
    /\ env = [pmc |-> "no_ids", biorxiv |-> "exc", medrxiv |-> "exc", arxiv |-> "exc",
              rg |-> "exc"]
    /\ result = EmptyResult
    /\ calls = <<>>
    /\ outcome = "returned"
    /\ spc = "done"
    /\ sin = [esearch |-> "empty", efetch |-> "ok", n |-> 0, records |-> <<>>, elink |-> <<>>]
    /\ idx = 1
    /\ articles = <<>>
    /\ scalls = <<>>
    /\ sout = [kind |-> "returned", value |-> <<>>]

WebNext == WebValidate \/ WebRun \/ WebRespond

SpecWeb == WebInit /\ [][WebNext]_vars

\* C20: a request whose search found no article is answered with success
\* and an empty list of results, whatever requests came before: never with
\* an error, never with the rows of another query.
C20_EmptySearchOverHttp ==
    web.pc = "serving" =>
        \A i \in 1..NumRequests :
            web.reqs[i].pc = "responded" /\ web.reqs[i].search = "empty" =>
                /\ web.reqs[i].response.status = 200
                /\ web.reqs[i].response.results = <<>>
                /\ web.reqs[i].response.count = 0

\* the statuses of the responses of /api/search
SearchStatuses == {200, 400, 500, 504}

\* the body is an object whose email or query is missing or empty
Incomplete(b) == b.kind = "object" /\ (b.email = "" \/ b.query = "")

\* C27: a request whose email or query is missing or empty is answered with
\* 400 and its search subprocess is never started; every request that the
\* handler has left has exactly its one response, of status 200, 400, 500 or
\* 504, whether the body was malformed, the subprocess failed or timed out,
\* or no result file exists; a request still in the handler has none.
C27_ValidateThenAnswer ==
    web.pc = "serving" =>
        \A i \in 1..NumRequests :
            LET r == web.reqs[i]
            IN /\ Incomplete(r.body) => r.search = "none" /\ r.pc \in {"new", "responded"}
               /\ Incomplete(r.body) /\ r.pc = "responded" => r.response.status = 400
               /\ r.pc = "responded" => r.response.status \in SearchStatuses
               /\ r.pc # "responded" => r.response = NoResponse
               /\ r.body.kind = "malformed" /\ r.pc = "responded" => r.response.status = 500
               /\ r.search = "timeout" /\ r.pc = "responded" => r.response.status = 504
               /\ r.search = "raised" /\ r.pc = "responded" => r.response.status = 500

\* a request without query answered with 400 next to one that timed out
C27_Witness ==
    /\ web.pc = "serving"
    /\ \E i, j \in 1..NumRequests :
          /\ web.reqs[i].pc = "responded"
          /\ web.reqs[i].body.email # "" /\ web.reqs[i].body.query = ""
          /\ web.reqs[i].response = ErrorResponse(400, "required")
          /\ web.reqs[i].search = "none"
          /\ web.reqs[j].pc = "responded"
          /\ web.reqs[j].search = "timeout"
          /\ web.reqs[j].response.status = 504

\* C28: a request whose search found articles is answered with the rows of
\* its own query only, and from its search to its response the metadata file
\* is the one its search wrote, however the requests interleave.
C28_IsolatedSearches ==
    web.pc = "serving" =>
        \A i \in 1..NumRequests :
            LET r == web.reqs[i]
            IN /\ r.pc = "responded" /\ r.search = "found" =>
                     /\ r.response.status = 200
                     /\ \A k \in 1..Len(r.response.results) :
                           r.response.results[k].query = r.body.query
               /\ r.pc = "ran" /\ r.search = "found" => web.meta = r.body.query

-----------------------------------------------------------------------------
(* example_library_usage: resolve, guard, download *)

\* the truth value of a Python value under `if`: None and the empty dict are
\* falsy, a dict with keys is truthy whatever their values
PyTruthy(v) == v # None /\ DOMAIN v # {}

\* the value is a URL, not a dict of url, source and access_type
IsUrl(v) == DOMAIN v = {"base", "arg"}

\* searcher.get_full_text_url(article['pmid']): no article is passed
NoHint ==
    [kind |-> "none", truthy |-> FALSE, title |-> [t |-> "missing", s |-> <<>>],
     authors |-> "missing", other |-> FALSE]

\* `if pdf_url:` and, under it, the call of download_pdf(pdf_url, filepath)
LibraryGuard ==
    /\ rpc = "done"
    /\ dl = DlIdle
    /\ dl' = IF PyTruthy(result)
               THEN [pc |-> "get", url |-> result, file |-> NoFile, status |-> 0,
                     content |-> <<>>, error |-> "none", ret |-> "none", raised |-> FALSE]
               ELSE [pc |-> "skipped"]
    /\ UNCHANGED rvars
    /\ UNCHANGED svars
    /\ UNCHANGED <<fn, web>>

\* download_pdf with an argument that is no URL: session.get finds no
\* connection adapter for it and raises, the except clause returns False
LibraryDownload ==
    /\ dl.pc = "get"
    /\ ~IsUrl(dl.url)
    /\ dl' = OnDownloadError([dl EXCEPT !.error = "request"])
    /\ UNCHANGED rvars
    /\ UNCHANGED svars
    /\ UNCHANGED <<fn, web>>

\* one iteration of the loop on recent_articles[:10], for one article
LibraryInit ==
    /\ rpc = "pmc"
    /\ hint = NoHint
    /\ env \in Envs
    /\ result = EmptyResult
    /\ calls = <<>>
    /\ outcome = "running"
    /\ spc = "done"
    /\ sin = [esearch |-> "empty", efetch |-> "ok", n |-> 0, records |-> <<>>, elink |-> <<>>]
    /\ idx = 1
    /\ articles = <<>>
    /\ scalls = <<>>
    /\ sout = [kind |-> "returned", value |-> <<>>]
    /\ fn = FnIdle
    /\ dl = DlIdle
    /\ web = WebIdle

LibraryNext ==
    \/ ResolvePmc
    \/ ResolvePreprints
    \/ ResolveArxiv
    \/ ResolveResearchgate
    \/ LibraryGuard
    \/ LibraryDownload

SpecLibrary == LibraryInit /\ [][LibraryNext]_vars

\* C21: download_pdf is called only for an article for which
\* get_full_text_url found a full-text URL, and what it is given is a URL:
\* with no accessible full text the guard `if pdf_url:` skips the download.
C21_DownloadGuarded ==
    /\ dl.pc \in {"get", "done"} => result.url # None /\ IsUrl(dl.url)
    /\ rpc = "done" /\ result.url = None => dl.pc \in {"idle", "skipped"}

-----------------------------------------------------------------------------
(* main: selection and export of the search results *)

\* the article of rank i in the list that search returned
SearchResult(i) ==
    MakeArticle([pmid |-> PmidAt(i), pmc_id |-> NA, title |-> <<"T", DigitAt[i + 1]>>,
                 abstract |-> <<"a">>, authors |-> <<<<"X", " ", "A">>>>,
                 year |-> <<"2", "0", "2", "1">>, journal |-> <<"J">>,
                 doi |-> NA, doi_link |-> NA], PyInt(i))

SearchResults(n) == [i \in 1..n |-> SearchResult(i)]

Range(f) == {f[i] : i \in DOMAIN f}

\* an export that writes one article for each selected PMID, in the order
\* of the selection
SelectedArticles_PerPmid(arts, selected_pmids) ==
    [k \in 1..Len(selected_pmids) |->
        arts[CHOOSE i \in 1..Len(arts) : arts[i].pmid = selected_pmids[k]]]

\* [a for a in articles if a['pmid'] in selected_pmids]
SelectedArticles(arts, selected_pmids) ==
    SelectSeq(arts, LAMBDA a : a.pmid \in Range(selected_pmids))

\* "total_results" and "exported_articles" of search_metadata.json
Metadata(arts, selected_articles) ==
    [total_results |-> Len(arts), exported_articles |-> Len(selected_articles),
     articles |-> selected_articles]

NotWritten == [none |-> TRUE]

\* the lines typed at the prompt: up to NumArticles numbers separated by
\* blanks, one of them out of range, or 'all', or nothing
TypedNumbers == {<<"1">>, <<"2">>, <<"3">>, <<"9">>}
MainLines ==
    {Join(t, <<" ">>) : t \in UNION {[1..n -> TypedNumbers] : n \in 0..NumArticles}}
    \cup {All}

\* the runs of main after the search: batch mode, or the line the user types
MainCalls ==
    {[name |-> "main", in |-> [articles |-> SearchResults(n), batch |-> b, line |-> l],
      out |-> [pc |-> "select", articles |-> SearchResults(n), selected_pmids |-> <<>>,
               selected_articles |-> <<>>, file |-> NotWritten, metadata |-> NotWritten],
      done |-> FALSE]
        : n \in 0..NumArticles, b \in {TRUE}, l \in {<<>>}}
    \cup
    {[name |-> "main", in |-> [articles |-> SearchResults(n), batch |-> b, line |-> l],
      out |-> [pc |-> "select", articles |-> SearchResults(n), selected_pmids |-> <<>>,
               selected_articles |-> <<>>, file |-> NotWritten, metadata |-> NotWritten],
      done |-> FALSE]
        : n \in 1..NumArticles, b \in {FALSE}, l \in MainLines}

\* main from the result of search to the selection: no article or no
\* selected PMID ends the run before anything is written
MainSelect ==
    /\ fn.name = "main" /\ fn.out.pc = "select"
    /\ LET arts == fn.out.articles
           selected_pmids == IF fn.in.batch THEN [i \in 1..Len(arts) |-> arts[i].pmid]
                             ELSE InteractiveSelection(fn.in.line, arts)
       IN fn' = IF arts = <<>> \/ selected_pmids = <<>>
                  THEN [fn EXCEPT !.out.pc = "returned", !.done = TRUE]
                  ELSE [fn EXCEPT !.out.pc = "export", !.out.selected_pmids = selected_pmids]
    /\ UNCHANGED rvars
    /\ UNCHANGED svars
    /\ UNCHANGED <<dl, web>>

\* main from the filter to the metadata: the CSV file and search_metadata.json
MainExport ==
    /\ fn.name = "main" /\ fn.out.pc = "export"
    /\ LET selected_articles == SelectedArticles(fn.out.articles, fn.out.selected_pmids)
       IN fn' = [fn EXCEPT !.out.pc = "exported",
                           !.out.selected_articles = selected_articles,
                           !.out.file = WriteCsv(selected_articles),
                           !.out.metadata = Metadata(fn.out.articles, selected_articles),
                           !.done = TRUE]
    /\ UNCHANGED rvars
    /\ UNCHANGED svars
    /\ UNCHANGED <<dl, web>>

ExportInit ==
    /\ fn \in MainCalls
    /\ dl = DlIdle
    /\ web = WebIdle
    /\ rpc = "done"
    /\ hint = NoHint
    /\ env = [pmc |-> "no_ids", biorxiv |-> "exc", medrxiv |-> "exc", arxiv |-> "exc",
              rg |-> "exc"]
    /\ result = EmptyResult
    /\ calls = <<>>
    /\ outcome = "returned"
    /\ spc = "done"
    /\ sin = [esearch |-> "empty", efetch |-> "ok", n |-> 0, records |-> <<>>, elink |-> <<>>]
    /\ idx = 1
    /\ articles = <<>>
    /\ scalls = <<>>
    /\ sout = [kind |-> "returned", value |-> <<>>]

ExportNext == MainSelect \/ MainExport

SpecExport == ExportInit /\ [][ExportNext]_vars

\* the ranks of the search results whose PMID is among the selected ones
KeptRanks == {i \in 1..Len(fn.in.articles) : fn.in.articles[i].pmid \in Range(fn.out.selected_pmids)}

\* the k-th smallest element of a set of numbers
Nth(S, k) == CHOOSE i \in S : Cardinality({j \in S : j < i}) = k - 1

\* C26: what main exports are the search results whose PMID was selected,
\* each once and in the order of the search results, also when a number was
\* typed twice; the list of search results stays as search returned it;
\* exported_articles in the metadata is the number of rows of the CSV file,
\* whose rows are those articles; in batch mode every result is exported.
C26_ExportSelects ==
    /\ fn.name = "main" => fn.out.articles = fn.in.articles
    /\ fn.name = "main" /\ fn.out.pc = "exported" =>
          LET exported == fn.out.selected_articles
              rows == DictReader(fn.out.file)
          IN /\ Len(exported) = Cardinality(KeptRanks)
             /\ \A k \in 1..Len(exported) : exported[k] = fn.in.articles[Nth(KeptRanks, k)]
             /\ \A k, l \in 1..Len(exported) : exported[k].pmid = exported[l].pmid => k = l
             /\ fn.out.metadata.exported_articles = Len(rows)
             /\ Len(rows) = Len(exported)
             /\ \A k \in 1..Len(rows) :
                   rows[k][1] = <<Str(Fieldnames[1]), Str(exported[k].pmid)>>
             /\ fn.out.metadata.total_results = Len(fn.in.articles)
             /\ fn.in.batch => exported = fn.in.articles

\* the user typed "2 2 1": the first two results are exported, in their order
C26_Witness ==
    /\ fn.name = "main" /\ fn.out.pc = "exported"
    /\ ~fn.in.batch /\ fn.in.line = <<"2", " ", "2", " ", "1">>
    /\ Len(fn.in.articles) = NumArticles
    /\ fn.out.selected_pmids = <<PmidAt(2), PmidAt(2), PmidAt(1)>>
    /\ fn.out.selected_articles = <<SearchResult(1), SearchResult(2)>>
    /\ fn.out.metadata.exported_articles = 2

-----------------------------------------------------------------------------
(* the web server: POST /api/download-pdfs *)

MaxSelected == 3

\* the size of the end-of-central-directory record that closing a ZipFile
\* writes, also into an archive without entries
EndRecordSize == 22

\* the local header and the central directory header of one entry
EntryOverhead == 76

PdfUrl == <<"h", "t", "t", "p", "s", ":", "/", "/", "x", "/", "p", "d", "f", "/">>

\* an element of 'articles': no dict, or a row of the results table whose
\* PDF_Link is missing, 'N/A', empty or a URL, and whose Title is a text or
\* not (a number, null)
SelectedShapes ==
    {[kind |-> "nondict", PDF_Link |-> Absent, PMID |-> <<>>, Title |-> "str"]}
    \cup {[kind |-> "dict", PDF_Link |-> l, PMID |-> PmidAt(1), Title |-> "str"]
             : l \in {Absent, Some(NA), Some(<<>>), Some(PdfUrl)}}
    \cup {[kind |-> "dict", PDF_Link |-> Some(PdfUrl), PMID |-> PmidAt(2), Title |-> "nonstr"]}

\* the bodies of the requests: no JSON object, an object without 'articles',
\* or one with a list of up to MaxSelected articles
ZipBodies ==
    {[kind |-> "malformed", articles |-> Absent], [kind |-> "object", articles |-> Absent]}
    \cup {[kind |-> "object", articles |-> Some(l)]
             : l \in UNION {[1..n -> SelectedShapes] : n \in 0..MaxSelected}}

\* article.get('PDF_Link', 'N/A')
PdfLinkOf(a) == IF a.PDF_Link.has THEN a.PDF_Link.v ELSE NA

\* pdf_link == 'N/A' or not pdf_link
NoLink(a) == PdfLinkOf(a) = NA \/ PdfLinkOf(a) = <<>>

\* what urlopen and response.read() do for a link: an HTTP error status, no
\* connection, the timeout of 15 s, an empty body, or the bytes of a file
UrlopenErrors == {"HTTPError", "URLError", "Timeout"}
ZipData == {<<>>, <<"%", "P", "D", "F">>}

Fetched(d) == [error |-> "none", data |-> d]
Failed(e) == [error |-> e, data |-> <<>>]

FetchOutcomes(a) ==
    IF NoLink(a) THEN {Failed("nolink")}
    ELSE {Failed(e) : e \in UrlopenErrors} \cup {Fetched(d) : d \in ZipData}

\* an iteration that does not count an empty body
CountArticle_EmptyUncounted(w, a, o) ==
    IF NoLink(a) THEN [w EXCEPT !.failed_count = @ + 1]
    ELSE IF o.error # "none" THEN [w EXCEPT !.failed_count = @ + 1]
    ELSE IF o.data # <<>>
      THEN IF a.Title # "str" THEN [w EXCEPT !.failed_count = @ + 1]
           ELSE [w EXCEPT !.entries = Append(@, [name |-> a.PMID, data |-> o.data]),
                          !.downloaded_count = @ + 1]
    ELSE w

\* the body of the loop for a dict: no link counts as failed; an exception
\* of urlopen or of title[:50] counts as failed; an empty body counts as
\* failed; other bytes are written to the zip and count as downloaded
CountArticle(w, a, o) ==
    IF NoLink(a) THEN [w EXCEPT !.failed_count = @ + 1]
    ELSE IF o.error # "none" THEN [w EXCEPT !.failed_count = @ + 1]
    ELSE IF o.data # <<>>
      THEN IF a.Title # "str" THEN [w EXCEPT !.failed_count = @ + 1]
           ELSE [w EXCEPT !.entries = Append(@, [name |-> a.PMID, data |-> o.data]),
                          !.downloaded_count = @ + 1]
    ELSE [w EXCEPT !.failed_count = @ + 1]

\* zip_buffer.tell() after the with block: the entries and the end record
RECURSIVE EntriesSize(_)
EntriesSize(entries) ==
    IF entries = <<>> THEN 0
    ELSE EntryOverhead + 2 * Len(entries[1].name) + Len(entries[1].data)
         + EntriesSize(Tail(entries))

ZipTell(entries) == EntriesSize(entries) + EndRecordSize

ZipError(status, error, downloaded, failed) ==
    [status |-> status, error |-> error, downloaded |-> downloaded, failed |-> failed,
     zip |-> Absent]
ZipSent(entries) ==
    [status |-> 200, error |-> "none", downloaded |-> 0, failed |-> 0, zip |-> Some(entries)]

ZipStartStates ==
    {[pc |-> "zip_new", body |-> b, selected |-> <<>>, i |-> 0, log |-> <<>>,
      entries |-> <<>>, downloaded_count |-> 0, failed_count |-> 0, looped |-> FALSE,
      response |-> NoResponse] : b \in ZipBodies}

\* the handler up to the loop: the body is read, an empty selection is
\* answered with 400, a body that is no object raises and is answered 500
ZipStart ==
    /\ web.pc = "zip_new"
    /\ web' = IF web.body.kind # "object"
                THEN [web EXCEPT !.pc = "responded",
                                 !.response = ZipError(500, "exception", 0, 0)]
              ELSE IF ~web.body.articles.has \/ web.body.articles.v = <<>>
                THEN [web EXCEPT !.pc = "responded",
                                 !.response = ZipError(400, "noselection", 0, 0)]
              ELSE [web EXCEPT !.pc = "loop", !.selected = web.body.articles.v, !.i = 1]
    /\ UNCHANGED rvars
    /\ UNCHANGED svars
    /\ UNCHANGED <<fn, dl>>

\* one iteration of the loop on selected_articles; an element without .get
\* raises outside the inner try and ends the handler with 500
ZipArticle ==
    /\ web.pc = "loop" /\ web.i <= Len(web.selected)
    /\ LET a == web.selected[web.i]
       IN IF a.kind # "dict"
            THEN web' = [web EXCEPT !.pc = "responded",
                                    !.response = ZipError(500, "exception", 0, 0)]
            ELSE \E o \in FetchOutcomes(a) :
                    web' = [CountArticle(web, a, o) EXCEPT !.i = @ + 1, !.log = Append(@, o)]
    /\ UNCHANGED rvars
    /\ UNCHANGED svars
    /\ UNCHANGED <<fn, dl>>

\* after the loop: the ZipFile is closed, then the 400 for an empty buffer
\* with no download, else the zip file is sent
ZipRespond ==
    /\ web.pc = "loop" /\ web.i > Len(web.selected)
    /\ web' = [web EXCEPT
                 !.pc = "responded",
                 !.looped = TRUE,
                 !.response = IF ZipTell(web.entries) = 0 /\ web.downloaded_count = 0
                                THEN ZipError(400, "nodownload", 0, web.failed_count)
                                ELSE ZipSent(web.entries)]
    /\ UNCHANGED rvars
    /\ UNCHANGED svars
    /\ UNCHANGED <<fn, dl>>

ZipInit ==
    /\ web \in ZipStartStates
    /\ fn = FnIdle
    /\ dl = DlIdle
    /\ rpc = "done"
    /\ hint = NoHint
    /\ env = [pmc |-> "no_ids", biorxiv |-> "exc", medrxiv |-> "exc", arxiv |-> "exc",
              rg |-> "exc"]
    /\ result = EmptyResult
    /\ calls = <<>>
    /\ outcome = "returned"
    /\ spc = "done"
    /\ sin = [esearch |-> "empty", efetch |-> "ok", n |-> 0, records |-> <<>>, elink |-> <<>>]
    /\ idx = 1
    /\ articles = <<>>
    /\ scalls = <<>>
    /\ sout = [kind |-> "returned", value |-> <<>>]

ZipNext == ZipStart \/ ZipArticle \/ ZipRespond

SpecZip == ZipInit /\ [][ZipNext]_vars

\* the articles handled so far whose bytes came and could be named
Delivered ==
    {k \in 1..Len(web.log) :
        web.log[k].error = "none" /\ web.log[k].data # <<>> /\ web.selected[k].Title = "str"}

AllDicts(l) == \A k \in 1..Len(l) : l[k].kind = "dict"

\* C29: every selected article is counted once: during the loop downloaded
\* plus failed is the number of articles handled, after it the number of
\* selected articles; the downloaded ones are those whose non-empty bytes
\* were added to the zip; and whatever fails for an article (no link, HTTP
\* error, no connection, timeout, empty body), the loop goes on to the end.
C29_EveryArticleCounted ==
    web.pc \in {"loop", "responded"} =>
        /\ web.pc = "loop" =>
              /\ web.downloaded_count + web.failed_count = web.i - 1
              /\ Len(web.log) = web.i - 1
        /\ web.looped =>
              /\ web.downloaded_count + web.failed_count = Len(web.selected)
              /\ Len(web.log) = Len(web.selected)
        /\ web.downloaded_count = Cardinality(Delivered)
        /\ web.downloaded_count = Len(web.entries)
        /\ \A k \in 1..Len(web.entries) : web.entries[k].data # <<>>
        /\ web.pc = "responded" /\ web.selected # <<>> /\ AllDicts(web.selected) => web.looped

\* three articles: no link, an HTTP error, then a PDF that is downloaded
C29_Witness ==
    /\ web.pc = "responded" /\ web.looped
    /\ Len(web.selected) = 3
    /\ NoLink(web.selected[1])
    /\ web.log[2] = Failed("HTTPError")
    /\ web.log[3].data # <<>>
    /\ web.downloaded_count = 1 /\ web.failed_count = 2

\* C30: a request without selection, or one none of whose PDFs could be
\* downloaded, is answered with status 400 and an error carrying downloaded 0
\* and the number of failures, and no zip; a zip is sent only when at
\* least one PDF was downloaded.
C30_NoEmptyZip ==
    web.pc = "responded" =>
        /\ web.body.kind = "object" /\ (~web.body.articles.has \/ web.body.articles.v = <<>>) =>
              web.response.status = 400 /\ ~web.response.zip.has
        /\ web.looped /\ web.downloaded_count = 0 =>
              /\ web.response.status = 400
              /\ web.response.downloaded = 0
              /\ web.response.failed = web.failed_count
              /\ ~web.response.zip.has
        /\ web.response.zip.has => web.downloaded_count >= 1

====
